---- MODULE Spec2Model ----
(***************************************************************************)
(* Verification model of the scenario execution engine of nomos-testing.   *)
(*                                                                         *)
(* Part 1: the block feed (core/src/scenario/runtime/block_feed.rs):       *)
(*         the source node's block tree, the scanner (spawn_block_feed,    *)
(*         run, catch_up), the tokio broadcast channel it sends into, the  *)
(*         subscribers, and the cleanup guard.                             *)
(* Part 2: the data-availability workload's channel flows                  *)
(*         (workflows/src/workloads/da/workload.rs).                       *)
(* Part 3: the chaos restart workload (workflows/src/workloads/chaos.rs).  *)
(* Part 6: the consensus-liveness expectation                               *)
(*         (workflows/src/expectations/consensus_liveness.rs).              *)
(* Part 5: the deployers' deploy (compose, k8s, local) and the compose      *)
(*         environment's cleanup guard.                                     *)
(* Part 4: the runner's phases (init, capture, launch, wait, evaluate) and *)
(*         the expectations' start_capture.                                *)
(* Further parts: the transaction workload and its expectation, the DA     *)
(*         expectation, publish_blob, the chaos builder, the DA plan, the  *)
(*         topology builder, the wallet configuration, the transaction     *)
(*         capture task, the cfgsync repository                            *)
(*         (tools/cfgsync/src/repo.rs) and repeated start_capture calls.   *)
(***************************************************************************)
EXTENDS Integers, Sequences, FiniteSets, TLC

\* ------------------------------------------------------------------ bounds

\* Blocks the source node produces on top of genesis during one behaviour.
MaxBlocks == 3

\* Receivers created on the feed (ctx.block_feed().subscribe()).
NumSubs == 1

\* Capacity of the broadcast channel. The program uses 1024
\* (block_feed.rs:78); the model scales it down so that a receiver can
\* actually lag within MaxBlocks records.
ChannelCapacity == 2

\* Blobs each DA channel flow publishes (per_channel_target).
TargetBlobs == 2

\* Blocks broadcast on the feed while the DA flows run.
MaxDaBlocks == 4

\* Chaos workload: the clock runs to MaxTime; delays, cooldown and the time
\* a restart takes are drawn up to these values; topology sizes.
MaxTime == 5
MaxDelay == 1
MaxCooldown == 2
MaxRestartTime == 1
MaxValidators == 2
MaxExecutors == 1

\* Consensus liveness: configured lag allowances 0..MaxLag, clients sampled,
\* heights 0..MaxHeight and BigHeight.
MaxLag == 6
MaxClients == 2
MaxHeight == 11
BigHeight == 60

\* Transaction workload: wallet keys, run duration and block interval in
\* seconds, transactions per block, and the capture counter's range.
MaxAccounts == 3
MaxRunSecs == 2
MaxRate == 2
MaxObserved == 2

\* DA inclusion expectation: channel rates, expected consensus blocks, and
\* the blob operations the capture task counts.
MaxChannelRate == 4
MaxExpectedBlocks == 5
MaxObservedBlobs == 4

\* publish_blob: executors of the run.
MaxPublishExecutors == 2

\* Chaos restart builder: delays 0..MaxBuilderDelay s besides the defaults.
MaxBuilderDelay == 2

\* DA workload plan: u64 quantities are held in a word of WordBits bits;
\* channel rates up to MaxPlanRate, expected blocks up to MaxPlanBlocks.
WordBits == 5
MaxPlanRate == 3
MaxPlanBlocks == 2

\* Topology builder: validator and executor counts up to these.
MaxTopoValidators == 3
MaxTopoExecutors == 2

\* WalletConfig::uniform: total funds up to MaxFunds, up to MaxUsers users.
MaxFunds == 5
MaxUsers == 3

\* Capture task of the transaction expectation: blocks received, and
\* transactions in a block.
MaxCaptureBlocks == 3
MaxBlockTxs == 2

\* cfgsync repository: hosts that can announce themselves, n_hosts,
\* the timeout in seconds, and the requests the server receives.
MaxHosts == 3
NHosts == 2
TimeoutSecs == 1
MaxRequests == 4

\* Repeated start_capture: calls per expectation and blocks broadcast.
MaxCaptureCalls == 2
MaxBroadcast == 2

Genesis == 0

Subs == 1..NumSubs

VARIABLES
    \* --- the source node (external): its block tree and current tip
    nBlocks,        \* blocks 1..nBlocks exist besides Genesis
    parentOf,       \* [1..nBlocks -> 0..nBlocks-1], header().parent()
    nodeTip,        \* consensus_info().tip
    \* --- BlockScanner and the task running it
    scPc,           \* position of the scanner
    spawned,        \* spawn_block_feed has returned Ok((feed, task))
    seen,           \* BlockScanner.seen
    cursor,         \* catch_up: cursor
    remaining,      \* catch_up: remaining_height
    stack,          \* catch_up: stack (headers; last element is the top)
    batch,          \* headers ingested by the catch_up in progress, in order
    ingested,       \* headers ingested by this feed since it was created
    totalTx,        \* BlockStats.total_transactions
    lastResult,     \* result of the last finished catch_up
    lastTip,        \* tip read by the last catch_up
    tipAtSpawn,     \* tip read by the catch_up spawn_block_feed performed
    spawnLen,       \* number of headers ingested when spawn_block_feed returned
    \* --- handles and the broadcast channel
    cleaned,        \* BlockFeedTask::cleanup has been invoked (handle.abort())
    ctxFeed,        \* the BlockFeed handle returned by spawn_block_feed is alive
    sent,           \* records stored in the channel, oldest first
    rx,             \* per subscriber: its receiver
    recvAfterClean, \* a receiver got Ok(record) after cleanup was invoked
    \* --- DA workload: one flow per planned channel
    daPc,           \* position of each flow in run_channel_flow
    daParent,       \* run_channel_flow: parent_id
    daBlobs,        \* blobs of the channel observed so far (loop counter)
    daEvents,       \* per channel, what the flow did, in order
    daPending,      \* operations accepted by the cluster, not yet in a block
    daSent,         \* blocks broadcast by the feed (each a set of operations)
    daRx,           \* per flow: its receiver on the feed
    daClosed,       \* every sender of the feed is gone
    \* --- chaos restart workload
    chPc,           \* position of RandomRestartWorkload::start
    chNow,          \* the clock (Instant::now())
    chCfg,          \* the workload's fields
    chTopo,         \* validator and executor counts, node-control handle
    chCooldowns,    \* start: cooldowns
    chWake,         \* pick_target: instant its sleep ends
    chTarget,       \* the target pick_target returned
    chLast,         \* per target: when its last restart completed (-1: never)
    \* --- the runner
    rnPhase,        \* phase of Runner::run
    rnWorkloads,    \* the scenario's workloads, in declaration order
    rnExpect,       \* scenario-level expectations, then the workloads' own
    rnIdx,          \* index of the next workload / expectation in the phase
    rnStarted,      \* expectations whose start_capture has returned Ok
    rnCaptureState, \* expectations whose capture_state is Some
    rnReceivers,    \* expectations holding a receiver on the block feed
    rnWl,           \* per workload: state of its start future
    rnSubmitted,    \* workloads that have submitted something to the cluster
    rnFailed,       \* expectations whose evaluate failed
    \* --- the deployers
    dpPc,           \* position in deploy
    dpIn,           \* the scenario, the deployer and the host's environment
    dpW,            \* what the deployment has created, and who owns it
    dpErr,          \* the error deploy returned
    dpBring,        \* failed turns of the bring-up loop
    dpFeedTry,      \* attempts to start the block feed
    dpSlept,        \* seconds slept between those attempts
    dpNodeControl,  \* the node-control handle put in the RunContext
    dpRunErr,       \* the chaos workload's start found no handle
    dpUp,           \* the backend environment was brought up
    \* --- the consensus-liveness expectation
    lvPc,           \* position in evaluate
    lvLag,          \* ConsensusLiveness::lag_allowance
    lvHint,         \* ctx.expected_blocks()
    lvClients,      \* number of node clients
    lvIdx,          \* collect_results: index of the current client
    lvAttempt,      \* collect_results: attempt on the current client
    lvSamples,      \* heights sampled, in client order
    lvFailed,       \* clients recorded as RequestFailed
    lvOut,          \* what report computed and returned
    \* --- the transaction workload and its expectation
    txPc,           \* position of the workload's run
    txIn,           \* the scenario's inputs
    txAccounts,     \* Workload::accounts
    txPlan,         \* Submission::plan
    txSent,         \* accounts whose transaction was submitted, in order
    txResult,       \* what init / start_capture / start returned
    txExp,          \* TxInclusionExpectation::capture_state
    txVerdict,      \* what evaluate returned
    \* --- the DA inclusion expectation
    dxPc,           \* position: new, capturing, evaluated
    dxIn,           \* the workload's rates and the expected block count
    dxCap,          \* DaWorkloadExpectation::capture_state
    dxVerdict,      \* what evaluate returned
    \* --- publish_blob
    pbPc,           \* position: new, round, publish, done
    pbExecutors,    \* number of executor clients
    pbAttempt,      \* the loop variable `attempt`
    pbOrder,        \* candidates, as shuffled for this round
    pbIdx,          \* index of the current candidate
    pbSlept,        \* seconds slept between rounds
    pbLastErr,      \* last_err
    pbLog,          \* candidates tried in this round, in order
    pbOut,          \* what publish_blob returned
    \* --- attaching a chaos restart workload
    cbPc,           \* scenario (builder), restart (ChaosRestartBuilder), panicked
    cbCfg,          \* the fields of the ChaosRestartBuilder
    cbWorkloads,    \* the chaos restart workloads attached to the scenario
    cbVia,          \* how the last one was attached: builder, direct
    \* --- the DA workload's plan and its channel flows
    dwPc,           \* idle, configured, running, completed, failed, panicked
    dwIn,           \* the workload's rates and the run's expected blocks
    dwPlan,         \* planned channels, expected blobs, per-channel target
    dwFlow,         \* per planned channel: running, done, failed
    dwPublished,    \* per planned channel: blobs published so far
    \* --- the topology builder
    tbPc,           \* none, builder, built, panicked, supported, rejected
    tbCfg,          \* TopologyConfig: node counts, consensus participants
    tbTopo,         \* GeneratedTopology: validators and executors
    \* --- WalletConfig::uniform
    wlPc,           \* none, built, panicked
    wlArgs,         \* total_funds and users of the last call
    wlWallet,       \* the accounts the last call produced
    wlPrev,         \* the accounts the call before it produced
    \* --- the capture task of the transaction-inclusion expectation
    tcPc,           \* idle, capturing, exited
    tcTracked,      \* tracked_accounts: the public keys tracked
    tcObserved,     \* observed (AtomicU64)
    tcReceived,     \* blocks the task has received
    tcLagged,       \* Lagged errors the task has received
    tcOutputs,      \* tracked outputs in received blocks off genesis
    tcTxs,          \* transactions with a tracked output in those blocks
    \* --- the cfgsync repository
    cfPc,           \* run task: waiting, releasing, done, panicked
    cfWaiting,      \* waiting_hosts: host -> index of the request whose sender it holds
    cfPoisoned,     \* the waiting_hosts mutex is poisoned
    cfElapsed,      \* whole seconds wait_for_hosts has slept
    cfReq,          \* requests received: host, state and configuration
    cfReleased,     \* the hosts create_node_configs was called with
    \* --- repeated start_capture calls on the two expectations
    rcPc,           \* new, configured
    rcTxIn,         \* wallet, user limit, run duration and rate the context holds
    rcDaIn,         \* the DA expectation's rates and the expected blocks
    rcTx,           \* TxInclusionExpectation.capture_state
    rcDa,           \* DaWorkloadExpectation.capture_state
    rcSubs,         \* receivers created by block_feed().subscribe()
    rcTasks,        \* capture tasks spawned, per expectation
    rcCalls,        \* start_capture calls made, per expectation
    rcLast,         \* result of the last start_capture call, per expectation
    rcSeen          \* tracked transactions / planned blobs broadcast since the first capture

feedVars == <<nBlocks, parentOf, nodeTip, scPc, spawned, seen, cursor, remaining,
              stack, batch, ingested, totalTx, lastResult, lastTip, tipAtSpawn,
              spawnLen, cleaned, ctxFeed, sent, rx, recvAfterClean>>

daVars == <<daPc, daParent, daBlobs, daEvents, daPending, daSent, daRx, daClosed>>

\* What the actions of one part leave unchanged.
chVars == <<chPc, chNow, chCfg, chTopo, chCooldowns, chWake, chTarget, chLast>>

rnVars == <<rnPhase, rnWorkloads, rnExpect, rnIdx, rnStarted, rnCaptureState,
            rnReceivers, rnWl, rnSubmitted, rnFailed>>

dpVars == <<dpPc, dpIn, dpW, dpErr, dpBring, dpFeedTry, dpSlept, dpNodeControl,
            dpRunErr, dpUp>>

lvVars == <<lvPc, lvLag, lvHint, lvClients, lvIdx, lvAttempt, lvSamples, lvFailed,
            lvOut>>

txVars == <<txPc, txIn, txAccounts, txPlan, txSent, txResult, txExp, txVerdict>>

dxVars == <<dxPc, dxIn, dxCap, dxVerdict>>

pbVars == <<pbPc, pbExecutors, pbAttempt, pbOrder, pbIdx, pbSlept, pbLastErr,
            pbLog, pbOut>>

cbVars == <<cbPc, cbCfg, cbWorkloads, cbVia>>

dwVars == <<dwPc, dwIn, dwPlan, dwFlow, dwPublished>>

tbVars == <<tbPc, tbCfg, tbTopo>>

wlVars == <<wlPc, wlArgs, wlWallet, wlPrev>>

tcVars == <<tcPc, tcTracked, tcObserved, tcReceived, tcLagged, tcOutputs,
    tcTxs>>

cfVars == <<cfPc, cfWaiting, cfPoisoned, cfElapsed, cfReq, cfReleased>>

rcVars == <<rcPc, rcTxIn, rcDaIn, rcTx, rcDa, rcSubs, rcTasks, rcCalls,
    rcLast, rcSeen>>

otherThanFeed == <<daVars, chVars, rnVars, dpVars, lvVars, txVars, dxVars,
    pbVars, cbVars, dwVars, tbVars, wlVars, tcVars, cfVars, rcVars>>
otherThanDa == <<feedVars, chVars, rnVars, dpVars, lvVars, txVars, dxVars,
    pbVars, cbVars, dwVars, tbVars, wlVars, tcVars, cfVars, rcVars>>
otherThanChaos == <<feedVars, daVars, rnVars, dpVars, lvVars, txVars, dxVars,
    pbVars, cbVars, dwVars, tbVars, wlVars, tcVars, cfVars, rcVars>>
otherThanRunner == <<feedVars, daVars, chVars, dpVars, lvVars, txVars,
    dxVars, pbVars, cbVars, dwVars, tbVars, wlVars, tcVars, cfVars, rcVars>>
otherThanDeploy == <<feedVars, daVars, chVars, rnVars, lvVars, txVars,
    dxVars, pbVars, cbVars, dwVars, tbVars, wlVars, tcVars, cfVars, rcVars>>
otherThanLiveness == <<feedVars, daVars, chVars, rnVars, dpVars, txVars,
    dxVars, pbVars, cbVars, dwVars, tbVars, wlVars, tcVars, cfVars, rcVars>>
otherThanTx == <<feedVars, daVars, chVars, rnVars, dpVars, lvVars, dxVars,
    pbVars, cbVars, dwVars, tbVars, wlVars, tcVars, cfVars, rcVars>>
otherThanDx == <<feedVars, daVars, chVars, rnVars, dpVars, lvVars, txVars,
    pbVars, cbVars, dwVars, tbVars, wlVars, tcVars, cfVars, rcVars>>
otherThanPb == <<feedVars, daVars, chVars, rnVars, dpVars, lvVars, txVars,
    dxVars, cbVars, dwVars, tbVars, wlVars, tcVars, cfVars, rcVars>>
otherThanCb == <<feedVars, daVars, chVars, rnVars, dpVars, lvVars, txVars,
    dxVars, pbVars, dwVars, tbVars, wlVars, tcVars, cfVars, rcVars>>
otherThanDw == <<feedVars, daVars, chVars, rnVars, dpVars, lvVars, txVars,
    dxVars, pbVars, cbVars, tbVars, wlVars, tcVars, cfVars, rcVars>>
otherThanTb == <<feedVars, daVars, chVars, rnVars, dpVars, lvVars, txVars,
    dxVars, pbVars, cbVars, dwVars, wlVars, tcVars, cfVars, rcVars>>
otherThanWl == <<feedVars, daVars, chVars, rnVars, dpVars, lvVars, txVars,
    dxVars, pbVars, cbVars, dwVars, tbVars, tcVars, cfVars, rcVars>>
otherThanTc == <<feedVars, daVars, chVars, rnVars, dpVars, lvVars, txVars,
    dxVars, pbVars, cbVars, dwVars, tbVars, wlVars, cfVars, rcVars>>
otherThanCf == <<feedVars, daVars, chVars, rnVars, dpVars, lvVars, txVars,
    dxVars, pbVars, cbVars, dwVars, tbVars, wlVars, tcVars, rcVars>>
otherThanRc == <<feedVars, daVars, chVars, rnVars, dpVars, lvVars, txVars,
    dxVars, pbVars, cbVars, dwVars, tbVars, wlVars, tcVars, cfVars>>

vars == <<feedVars, daVars, chVars, rnVars, dpVars, lvVars, txVars, dxVars,
    pbVars, cbVars, dwVars, tbVars, wlVars, tcVars, cfVars, rcVars>>











\* ------------------------------------------------------------- the node

Blocks == 0..nBlocks

\* header().parent() of a stored block.
ParentOf(b) == parentOf[b]

RECURSIVE Height(_)
Height(b) == IF b = Genesis THEN 0 ELSE 1 + Height(ParentOf(b))

\* Strict ancestors of b in the node's block tree.
RECURSIVE Ancestors(_)
Ancestors(b) == IF b = Genesis THEN {} ELSE {ParentOf(b)} \cup Ancestors(ParentOf(b))

IsAncestor(a, b) == a \in Ancestors(b)

\* Transactions in a block (every produced block carries one).
TxCount(b) == 1

\* ----------------------------------------------------- broadcast channel

NoRx == [active |-> FALSE, next |-> 0, got |-> {}, lagged |-> FALSE,
         closed |-> FALSE, early |-> FALSE]

RxCount == Cardinality({s \in Subs : rx[s].active})

\* BlockFeed handles alive: the scanner's clone and the one given to the
\* RunContext. The Sender lives in the Arc<BlockFeedInner> they share.
ScannerHoldsFeed == scPc \in {"poll", "fetch", "emit", "sleep"}

\* Mutant of SenderAlive: only the scanner keeps the Sender alive.
SenderOwnedByScanner == ScannerHoldsFeed

SenderAlive == ScannerHoldsFeed \/ ctxFeed

\* broadcast::Sender::send: with no receiver the value is returned in the
\* error and not stored; otherwise it is stored at the tail.
Send(chan, h) == IF RxCount = 0 THEN chan ELSE Append(chan, h)

\* Position of the oldest record the channel still retains.
Oldest == IF Len(sent) > ChannelCapacity THEN Len(sent) - ChannelCapacity ELSE 0

\* Outcome of Receiver::recv for subscriber s ("pending" = it would block).
RecvOutcome(s) ==
    IF rx[s].next < Oldest THEN "lagged"
    ELSE IF rx[s].next < Len(sent) THEN "ok"
    ELSE IF ~SenderAlive THEN "closed"
    ELSE "pending"

\* ------------------------------------------------------------- catch_up

\* Mutant of LoopTop: the height test is off by one, so the block at height 1
\* is marked seen without being fetched or emitted.
LoopTopOffByOne(cur, rem, sn) ==
    IF cur \in sn THEN [pc |-> "emit", seen |-> sn]
    ELSE IF rem <= 1 THEN [pc |-> "emit", seen |-> sn \cup {cur}]
    ELSE [pc |-> "fetch", seen |-> sn]

\* Mutant of LoopTop: the seen set is not consulted, so a tip that was
\* already emitted is fetched and emitted again.
LoopTopIgnoresSeen(cur, rem, sn) ==
    IF rem = 0 THEN [pc |-> "emit", seen |-> sn \cup {cur}]
    ELSE [pc |-> "fetch", seen |-> sn]

\* Mutant of LoopTop: the cursor is marked seen when it is visited, before
\* its block has been fetched.
LoopTopMarksCursor(cur, rem, sn) ==
    IF cur \in sn THEN [pc |-> "emit", seen |-> sn]
    ELSE IF rem = 0 THEN [pc |-> "emit", seen |-> sn \cup {cur}]
    ELSE [pc |-> "fetch", seen |-> sn \cup {cur}]

\* Top of the walk loop: the two checks made before a block is fetched.
LoopTop(cur, rem, sn) ==
    IF cur \in sn THEN [pc |-> "emit", seen |-> sn]
    ELSE IF rem = 0 THEN [pc |-> "emit", seen |-> sn \cup {cur}]
    ELSE [pc |-> "fetch", seen |-> sn]

\* Mutant of SaturatingSub: remaining_height is never decremented.
SaturatingSubKeeps(a, b) == a

\* Mutant of SaturatingSub: remaining_height is decremented twice a block.
SaturatingSubTwice(a, b) == IF a > 2 * b THEN a - 2 * b ELSE 0

\* usize::saturating_sub.
SaturatingSub(a, b) == IF a > b THEN a - b ELSE 0

\* Mutant of WalkStops: the walk never goes back past the tip, so the blocks
\* between two polled tips are not fetched.
WalkStopsAtTip(parent, cur, sn) == TRUE

\* After the fetched block was pushed: stop at a seen or self-referencing
\* parent, else move the cursor to the parent.
WalkStops(parent, cur, sn) == parent \in sn \/ parent = cur

\* Mutant of PopIndex: the gathered blocks are drained from the front, in the
\* order the walk pushed them (tip first).
PopIndexFront(st) == 1

\* stack.pop(): the element taken next by the emit loop.
PopIndex(st) == Len(st)

\* Mutant of RunAfterCatchUp: the loop propagates the error and ends.
RunStopsOnError(result) == IF result = "ok" THEN "sleep" ELSE "terminated"

\* What the scanner does once a catch_up of the run loop has returned.
RunAfterCatchUp(result) == "sleep"

\* A catch_up returns. In spawn_block_feed an Err is returned to the caller
\* (`?`) and an Ok spawns the task, which starts with a catch_up; in run both
\* are followed by the sleep.
Finish(result) ==
    /\ lastResult' = result
    /\ cursor' = Genesis
    /\ remaining' = 0
    /\ stack' = <<>>
    /\ IF spawned
         THEN /\ scPc' = RunAfterCatchUp(result)
              /\ UNCHANGED <<spawned, tipAtSpawn, spawnLen>>
         ELSE IF result = "ok"
           THEN /\ scPc' = "poll"
                /\ spawned' = TRUE
                /\ tipAtSpawn' = lastTip'
                /\ spawnLen' = Len(ingested)
           ELSE /\ scPc' = "spawnFailed"
                /\ UNCHANGED <<spawned, tipAtSpawn, spawnLen>>

FetchErrors == {"http", "decode", "missing"}

\* ---------------------------------------------------------------- Init

FeedInit ==
    /\ nBlocks = 0
    /\ parentOf = <<>>
    /\ nodeTip = Genesis
    /\ scPc = "unspawned"
    /\ spawned = FALSE
    /\ seen = {}
    /\ cursor = Genesis
    /\ remaining = 0
    /\ stack = <<>>
    /\ batch = <<>>
    /\ ingested = <<>>
    /\ totalTx = 0
    /\ lastResult = "none"
    /\ lastTip = Genesis
    /\ tipAtSpawn = Genesis
    /\ spawnLen = 0
    /\ cleaned = FALSE
    /\ ctxFeed = FALSE
    /\ sent = <<>>
    /\ rx = [s \in Subs |-> NoRx]
    /\ recvAfterClean = FALSE

\* ------------------------------------------------------------- actions

\* The node confirms a block on top of any block it has; the tip follows the
\* longest chain.
NodeProduce ==
    /\ nBlocks < MaxBlocks
    /\ \E p \in Blocks :
         LET b == nBlocks + 1
             hNew == Height(p) + 1
         IN /\ nBlocks' = b
            /\ parentOf' = Append(parentOf, p)
            /\ nodeTip' = IF hNew > Height(nodeTip) THEN b ELSE nodeTip
    /\ UNCHANGED <<scPc, spawned, seen, cursor, remaining, stack, batch, ingested,
                   totalTx, lastResult, lastTip, tipAtSpawn, spawnLen, cleaned, ctxFeed,
                   sent, rx, recvAfterClean>>
    /\ UNCHANGED otherThanFeed

\* spawn_block_feed is called (again after a failed attempt): a new channel
\* whose only receiver is dropped at once, a new feed, a new scanner with an
\* empty seen set, and the first catch_up begins.
SpawnBlockFeed ==
    /\ scPc \in {"unspawned", "spawnFailed"}
    /\ scPc' = "poll"
    /\ seen' = {}
    /\ batch' = <<>>
    /\ ingested' = <<>>
    /\ totalTx' = 0
    /\ sent' = <<>>
    /\ ctxFeed' = TRUE
    /\ UNCHANGED <<nBlocks, parentOf, nodeTip, spawned, cursor, remaining, stack,
                   lastResult, lastTip, tipAtSpawn, spawnLen, cleaned, rx, recvAfterClean>>
    /\ UNCHANGED otherThanFeed

\* consensus_info() answers: the walk starts at the tip.
PollOk ==
    /\ scPc = "poll"
    /\ ~cleaned
    /\ LET top == LoopTop(nodeTip, Height(nodeTip), seen)
       IN /\ lastTip' = nodeTip
          /\ batch' = <<>>
          /\ seen' = top.seen
          /\ IF top.pc = "fetch"
               THEN /\ scPc' = "fetch"
                    /\ cursor' = nodeTip
                    /\ remaining' = Height(nodeTip)
                    /\ stack' = <<>>
                    /\ UNCHANGED <<lastResult, spawned, tipAtSpawn, spawnLen>>
               ELSE Finish("ok")
    /\ UNCHANGED <<nBlocks, parentOf, nodeTip, ingested, totalTx, cleaned,
                   ctxFeed, sent, rx, recvAfterClean>>
    /\ UNCHANGED otherThanFeed

\* consensus_info() fails: catch_up returns the error.
PollErr ==
    /\ scPc = "poll"
    /\ ~cleaned
    /\ lastTip' = lastTip
    /\ Finish("http")
    /\ UNCHANGED <<nBlocks, parentOf, nodeTip, seen, batch, ingested, totalTx,
                   cleaned, ctxFeed, sent, rx, recvAfterClean>>
    /\ UNCHANGED otherThanFeed

\* storage_block(cursor) answers with the block: push it and go on.
FetchOk ==
    /\ scPc = "fetch"
    /\ ~cleaned
    /\ LET parent == ParentOf(cursor)
           pushed == Append(stack, cursor)
       IN IF WalkStops(parent, cursor, seen)
            THEN /\ scPc' = "emit"
                 /\ stack' = pushed
                 /\ UNCHANGED <<seen, cursor, remaining>>
            ELSE LET rem == SaturatingSub(remaining, 1)
                     top == LoopTop(parent, rem, seen)
                 IN /\ stack' = pushed
                    /\ cursor' = parent
                    /\ remaining' = rem
                    /\ seen' = top.seen
                    /\ scPc' = top.pc
    /\ UNCHANGED <<nBlocks, parentOf, nodeTip, spawned, batch, ingested, totalTx,
                   lastResult, lastTip, tipAtSpawn, spawnLen, cleaned, ctxFeed, sent, rx,
                   recvAfterClean>>
    /\ UNCHANGED otherThanFeed

\* storage_block(cursor) fails (transport or decode error) or answers None
\* ("missing block while catching up"): catch_up returns the error and the
\* stack is dropped.
FetchErr ==
    /\ scPc = "fetch"
    /\ ~cleaned
    /\ \E e \in FetchErrors :
         /\ lastTip' = lastTip
         /\ Finish(e)
    /\ UNCHANGED <<nBlocks, parentOf, nodeTip, seen, batch, ingested, totalTx,
                   cleaned, ctxFeed, sent, rx, recvAfterClean>>
    /\ UNCHANGED otherThanFeed

\* One turn of the emit loop: pop, feed.ingest (stats, send), seen.insert.
EmitOne ==
    /\ scPc = "emit"
    /\ stack # <<>>
    /\ LET i == PopIndex(stack)
           h == stack[i]
       IN /\ stack' = [k \in 1..(Len(stack) - 1) |->
                          IF k < i THEN stack[k] ELSE stack[k + 1]]
          /\ totalTx' = totalTx + TxCount(h)
          /\ sent' = Send(sent, h)
          /\ seen' = seen \cup {h}
          /\ batch' = Append(batch, h)
          /\ ingested' = Append(ingested, h)
    /\ UNCHANGED <<nBlocks, parentOf, nodeTip, scPc, spawned, cursor, remaining,
                   lastResult, lastTip, tipAtSpawn, spawnLen, cleaned, ctxFeed, rx,
                   recvAfterClean>>
    /\ UNCHANGED otherThanFeed

\* The emit loop has emptied the stack: catch_up returns Ok(()).
EmitDone ==
    /\ scPc = "emit"
    /\ stack = <<>>
    /\ lastTip' = lastTip
    /\ Finish("ok")
    /\ UNCHANGED <<nBlocks, parentOf, nodeTip, seen, batch, ingested, totalTx,
                   cleaned, ctxFeed, sent, rx, recvAfterClean>>
    /\ UNCHANGED otherThanFeed

\* sleep(POLL_INTERVAL) elapses.
Sleep ==
    /\ scPc = "sleep"
    /\ ~cleaned
    /\ scPc' = "poll"
    /\ UNCHANGED <<nBlocks, parentOf, nodeTip, spawned, seen, cursor, remaining,
                   stack, batch, ingested, totalTx, lastResult, lastTip,
                   tipAtSpawn, spawnLen, cleaned, ctxFeed, sent, rx, recvAfterClean>>
    /\ UNCHANGED otherThanFeed

\* BlockFeedTask::cleanup: handle.abort().
Cleanup ==
    /\ spawned
    /\ ~cleaned
    /\ cleaned' = TRUE
    /\ UNCHANGED <<nBlocks, parentOf, nodeTip, scPc, spawned, seen, cursor,
                   remaining, stack, batch, ingested, totalTx, lastResult, lastTip,
                   tipAtSpawn, spawnLen, ctxFeed, sent, rx, recvAfterClean>>
    /\ UNCHANGED otherThanFeed

\* The abort takes effect where the task is suspended (an await): the
\* scanner, and with it its clone of the feed, is dropped.
AbortEffect ==
    /\ cleaned
    /\ scPc \in {"poll", "fetch", "sleep"}
    /\ scPc' = "aborted"
    /\ cursor' = Genesis
    /\ remaining' = 0
    /\ stack' = <<>>
    /\ UNCHANGED <<nBlocks, parentOf, nodeTip, spawned, seen, batch, ingested,
                   totalTx, lastResult, lastTip, tipAtSpawn, spawnLen, cleaned, ctxFeed,
                   sent, rx, recvAfterClean>>
    /\ UNCHANGED otherThanFeed

\* The RunContext, and the BlockFeed handle it owns, is dropped.
DropContext ==
    /\ spawned
    /\ ctxFeed
    /\ ctxFeed' = FALSE
    /\ UNCHANGED <<nBlocks, parentOf, nodeTip, scPc, spawned, seen, cursor,
                   remaining, stack, batch, ingested, totalTx, lastResult, lastTip,
                   tipAtSpawn, spawnLen, cleaned, sent, rx, recvAfterClean>>
    /\ UNCHANGED otherThanFeed

\* BlockFeed::subscribe on the handle spawn_block_feed returned: the new
\* receiver starts at the tail of the channel.
Subscribe(s) ==
    /\ spawned
    /\ ctxFeed
    /\ ~rx[s].active
    /\ rx' = [rx EXCEPT ![s] = [active |-> TRUE, next |-> Len(sent), got |-> {},
                                lagged |-> FALSE, closed |-> FALSE,
                                early |-> Len(ingested) = spawnLen]]
    /\ UNCHANGED <<nBlocks, parentOf, nodeTip, scPc, spawned, seen, cursor,
                   remaining, stack, batch, ingested, totalTx, lastResult, lastTip,
                   tipAtSpawn, spawnLen, cleaned, ctxFeed, sent, recvAfterClean>>
    /\ UNCHANGED otherThanFeed

\* Receiver::recv returns for subscriber s.
Recv(s) ==
    /\ rx[s].active
    /\ ~rx[s].closed
    /\ LET o == RecvOutcome(s)
       IN /\ o # "pending"
          /\ rx' = [rx EXCEPT ![s] =
                      IF o = "lagged" THEN [@ EXCEPT !.next = Oldest, !.lagged = TRUE]
                      ELSE IF o = "ok" THEN [@ EXCEPT !.next = @ + 1,
                                                       !.got = @ \cup {sent[rx[s].next + 1]}]
                      ELSE [@ EXCEPT !.closed = TRUE]]
          /\ recvAfterClean' = (recvAfterClean \/ (o = "ok" /\ cleaned))
    /\ UNCHANGED <<nBlocks, parentOf, nodeTip, scPc, spawned, seen, cursor,
                   remaining, stack, batch, ingested, totalTx, lastResult, lastTip,
                   tipAtSpawn, spawnLen, cleaned, ctxFeed, sent>>
    /\ UNCHANGED otherThanFeed

FeedNext ==
    \/ NodeProduce
    \/ SpawnBlockFeed
    \/ PollOk
    \/ PollErr
    \/ FetchOk
    \/ FetchErr
    \/ EmitOne
    \/ EmitDone
    \/ Sleep
    \/ Cleanup
    \/ AbortEffect
    \/ DropContext
    \/ \E s \in Subs : Subscribe(s)
    \/ \E s \in Subs : Recv(s)


\* ===================================================================
\* The DA workload: run_channel_flow, wait_for_channel_op
\* ===================================================================

\* The workload's default rates (Workload::default).
DefaultChannelRate == 1
DefaultHeadroomPercent == 20

\* planned_channel_count: the rate plus its headroom, rounded up.
PlannedChannelCount(rate, headroom) ==
    LET extra == (rate * headroom + 99) \div 100
        total == rate + extra
    IN IF total > 1 THEN total ELSE 1

\* planned_channel_ids: one flow per planned channel.
DaChannels == 1..PlannedChannelCount(DefaultChannelRate, DefaultHeadroomPercent)

NoMsg == <<>>

\* Operations as the flows create them. A blob operation names the message
\* it was published on top of.
InscribeOp(c) == [kind |-> "inscribe", ch |-> c, blob |-> 0, parent |-> NoMsg]
BlobOp(c, k, p) == [kind |-> "blob", ch |-> c, blob |-> k, parent |-> p]

\* Op::id(): the MsgId of an operation (a hash; distinct operations of the
\* model have distinct ids).
MsgIdOf(op) == <<op.ch, op.blob>>

\* The matcher closures of wait_for_inscription and wait_for_blob.
InscriptionMatcher(c, op) == op.kind = "inscribe" /\ op.ch = c
BlobMatcher(c, k, op) == op.kind = "blob" /\ op.ch = c /\ op.blob = k

\* The matcher flow c is waiting with.
Matches(c, op) ==
    IF daPc[c] = "waitIns" THEN InscriptionMatcher(c, op)
    ELSE BlobMatcher(c, daBlobs[c] + 1, op)

\* find_channel_op: the operations of the block the matcher accepts.
FindChannelOp(c, block) == {op \in block : Matches(c, op)}

DaOldest == IF Len(daSent) > ChannelCapacity THEN Len(daSent) - ChannelCapacity ELSE 0

\* Outcome of receiver.recv() for flow c.
DaRecvOutcome(c) ==
    IF daRx[c].next < DaOldest THEN "lagged"
    ELSE IF daRx[c].next < Len(daSent) THEN "ok"
    ELSE IF daClosed THEN "closed"
    ELSE "pending"

\* Mutant of WaitStep: a Lagged receive error ends the wait with an error.
WaitStepLaggedFatal(outcome, matched) ==
    IF outcome = "ok" THEN (IF matched THEN "return_ok" ELSE "continue")
    ELSE "return_err"

\* One turn of the loop of wait_for_channel_op.
WaitStep(outcome, matched) ==
    IF outcome = "ok" THEN (IF matched THEN "return_ok" ELSE "continue")
    ELSE IF outcome = "lagged" THEN "continue"
    ELSE "return_err"

\* Mutant of AfterSubmit: the flow goes on to publish without waiting for
\* the inscription.
AfterSubmitNoWait == IF TargetBlobs > 0 THEN "publish" ELSE "done"

\* run_channel_flow after the inscription was submitted.
AfterSubmit == "waitIns"

\* run_channel_flow after `observed` blobs were observed: the for loop.
AfterObserved(observed) == IF observed < TargetBlobs THEN "publish" ELSE "done"

\* try_join_all: the first flow to fail ends the join and the flows still
\* running are dropped.
FailFlow(c) ==
    daPc' = [d \in DaChannels |->
                IF d = c THEN "failed"
                ELSE IF daPc[d] \in {"done", "failed"} THEN daPc[d]
                ELSE "cancelled"]

\* Mutant of FlowEntry: the flow submits its inscription first and
\* subscribes to the feed only when it starts to wait.
FlowEntrySubmits == "submit"

\* Workload::start, the async block of a channel: its first statement is
\* ctx.block_feed().subscribe(); run_channel_flow follows.
FlowEntry == "subscribe"

\* The receiver of a flow before the flow has subscribed.
NoDaRx == [active |-> FALSE, next |-> 0, lagged |-> FALSE, since |-> 0]

\* BlockFeed::subscribe: the new receiver starts at the tail of the channel.
DaSubscribed(tail) ==
    [active |-> TRUE, next |-> tail, lagged |-> FALSE, since |-> tail]

DaInit ==
    /\ daPc = [c \in DaChannels |-> FlowEntry]
    /\ daParent = [c \in DaChannels |-> NoMsg]
    /\ daBlobs = [c \in DaChannels |-> 0]
    /\ daEvents = [c \in DaChannels |-> <<>>]
    /\ daPending = {}
    /\ daSent = <<>>
    /\ daRx = [c \in DaChannels |-> NoDaRx]
    /\ daClosed = FALSE

\* The flow's async block is polled for the first time: it subscribes to
\* the block feed and enters run_channel_flow.
DaSubscribe(c) ==
    /\ daPc[c] = "subscribe"
    /\ daRx' = [daRx EXCEPT ![c] = DaSubscribed(Len(daSent))]
    /\ daPc' = [daPc EXCEPT ![c] = "submit"]
    /\ UNCHANGED <<daParent, daBlobs, daEvents, daPending, daSent, daClosed>>
    /\ UNCHANGED otherThanDa

\* submit_transaction_via_cluster(inscription) succeeds.
DaSubmitOk(c) ==
    /\ daPc[c] = "submit"
    /\ daPending' = daPending \cup {InscribeOp(c)}
    /\ daEvents' = [daEvents EXCEPT ![c] = Append(@, [ev |-> "submit", id |-> MsgIdOf(InscribeOp(c)), parent |-> NoMsg])]
    /\ daPc' = [daPc EXCEPT ![c] = AfterSubmit]
    /\ UNCHANGED <<daParent, daBlobs, daSent, daRx, daClosed>>
    /\ UNCHANGED otherThanDa

\* submit_transaction_via_cluster fails on every client: the flow fails.
DaSubmitErr(c) ==
    /\ daPc[c] = "submit"
    /\ FailFlow(c)
    /\ UNCHANGED <<daParent, daBlobs, daEvents, daPending, daSent, daRx, daClosed>>
    /\ UNCHANGED otherThanDa

\* One turn of wait_for_channel_op: receiver.recv() returns.
DaRecv(c) ==
    /\ daPc[c] \in {"waitIns", "waitBlob"}
    /\ daRx[c].active
    /\ LET o == DaRecvOutcome(c)
           found == IF o = "ok" THEN FindChannelOp(c, daSent[daRx[c].next + 1]) ELSE {}
           step == WaitStep(o, found # {})
       IN /\ o # "pending"
          /\ daRx' = [daRx EXCEPT ![c] =
                        IF o = "lagged"
                        THEN [@ EXCEPT !.next = DaOldest, !.lagged = TRUE]
                        ELSE IF o = "ok" THEN [@ EXCEPT !.next = @ + 1]
                        ELSE @]
          /\ IF step = "return_ok"
               THEN \E op \in found :
                      LET n == IF daPc[c] = "waitIns" THEN 0 ELSE daBlobs[c] + 1
                      IN /\ daParent' = [daParent EXCEPT ![c] = MsgIdOf(op)]
                         /\ daBlobs' = [daBlobs EXCEPT ![c] = n]
                         /\ daEvents' = [daEvents EXCEPT ![c] =
                                Append(@, [ev |-> "observed", id |-> MsgIdOf(op), parent |-> op.parent])]
                         /\ daPc' = [daPc EXCEPT ![c] = AfterObserved(n)]
             ELSE IF step = "return_err"
               THEN /\ FailFlow(c)
                    /\ UNCHANGED <<daParent, daBlobs, daEvents>>
             ELSE UNCHANGED <<daPc, daParent, daBlobs, daEvents>>
    /\ UNCHANGED <<daPending, daSent, daClosed>>
    /\ UNCHANGED otherThanDa

\* publish_blob returns Ok(blob_id): an executor accepted the blob on top of
\* parent_id.
DaPublishOk(c) ==
    /\ daPc[c] = "publish"
    /\ LET op == BlobOp(c, daBlobs[c] + 1, daParent[c])
       IN /\ daPending' = daPending \cup {op}
          /\ daEvents' = [daEvents EXCEPT ![c] =
                 Append(@, [ev |-> "publish", id |-> MsgIdOf(op), parent |-> op.parent])]
    /\ daPc' = [daPc EXCEPT ![c] = "waitBlob"]
    /\ UNCHANGED <<daParent, daBlobs, daSent, daRx, daClosed>>
    /\ UNCHANGED otherThanDa

\* publish_blob returns Err (no executor, or every attempt failed).
DaPublishErr(c) ==
    /\ daPc[c] = "publish"
    /\ FailFlow(c)
    /\ UNCHANGED <<daParent, daBlobs, daEvents, daPending, daSent, daRx, daClosed>>
    /\ UNCHANGED otherThanDa

\* The chain includes some of the accepted operations in a block and the
\* feed broadcasts it.
DaBlock ==
    /\ ~daClosed
    /\ Len(daSent) < MaxDaBlocks
    /\ \E ops \in SUBSET daPending :
         /\ daSent' = Append(daSent, ops)
         /\ daPending' = daPending \ ops
    /\ UNCHANGED <<daPc, daParent, daBlobs, daEvents, daRx, daClosed>>
    /\ UNCHANGED otherThanDa

\* The feed's sender is dropped.
DaFeedClose ==
    /\ ~daClosed
    /\ daClosed' = TRUE
    /\ UNCHANGED <<daPc, daParent, daBlobs, daEvents, daPending, daSent, daRx>>
    /\ UNCHANGED otherThanDa

DaNext ==
    \/ \E c \in DaChannels : DaSubscribe(c)
    \/ \E c \in DaChannels : DaSubmitOk(c)
    \/ \E c \in DaChannels : DaSubmitErr(c)
    \/ \E c \in DaChannels : DaRecv(c)
    \/ \E c \in DaChannels : DaPublishOk(c)
    \/ \E c \in DaChannels : DaPublishErr(c)
    \/ DaBlock
    \/ DaFeedClose


\* ===================================================================
\* The chaos restart workload
\* ===================================================================

AllTargets ==
    {<<"validator", i>> : i \in 0..(MaxValidators - 1)} \cup
    {<<"executor", i>> : i \in 0..(MaxExecutors - 1)}

NoTarget == <<"none", 0>>

\* Mutant of Targets: validators are targets whenever there is one.
TargetsAnyValidator(cfg, topo) ==
    (IF cfg.include_validators /\ topo.validators > 0
       THEN {<<"validator", i>> : i \in 0..(topo.validators - 1)} ELSE {})
    \cup
    (IF cfg.include_executors
       THEN {<<"executor", i>> : i \in 0..(topo.executors - 1)} ELSE {})

\* RandomRestartWorkload::targets.
Targets(cfg, topo) ==
    (IF cfg.include_validators /\ topo.validators > 1
       THEN {<<"validator", i>> : i \in 0..(topo.validators - 1)} ELSE {})
    \cup
    (IF cfg.include_executors
       THEN {<<"executor", i>> : i \in 0..(topo.executors - 1)} ELSE {})

ChTargets == Targets(chCfg, chTopo)

\* random_delay: min_delay when max_delay <= min_delay, else a value in
\* [min_delay, max_delay].
RandomDelays(cfg) ==
    IF cfg.max_delay <= cfg.min_delay THEN {cfg.min_delay}
    ELSE cfg.min_delay..cfg.max_delay

\* initialize_cooldowns: now - target_cooldown, or now when the subtraction
\* is not representable.
InitialReady(now, cfg) ==
    IF now >= cfg.target_cooldown THEN now - cfg.target_cooldown ELSE now

MinOf(S) == CHOOSE x \in S : \A y \in S : x <= y

\* One turn of the loop of pick_target at instant `now`: the set of things
\* it may do, either sleep until `wake` or return `target`.
PickStep(now, targets, cooldowns) ==
    LET cooling == {cooldowns[t] : t \in {u \in targets : cooldowns[u] > now}}
        available == {t \in targets : cooldowns[t] <= now}
    IN IF cooling # {} /\ MinOf(cooling) - now # 0
         THEN {[pc |-> "pickSleep", wake |-> MinOf(cooling), target |-> NoTarget]}
         ELSE IF available # {}
           THEN {[pc |-> "restart", wake |-> now, target |-> t] : t \in available}
           ELSE {[pc |-> "restart", wake |-> now, target |-> t] : t \in targets}

\* Mutant of CooldownUntil: the cooldown is not added.
CooldownUntilNow(now, cfg) == now

\* start: the instant stored for a target once its restart has returned.
CooldownUntil(now, cfg) == now + cfg.target_cooldown

NoCfg == [min_delay |-> 0, max_delay |-> 0, target_cooldown |-> 0,
          include_validators |-> FALSE, include_executors |-> FALSE]
NoTopo == [validators |-> 1, executors |-> 0, handle |-> FALSE]

ChaosInit ==
    /\ chPc = "new"
    /\ chNow = 0
    /\ chCfg = NoCfg
    /\ chTopo = NoTopo
    /\ chCooldowns = [t \in {} |-> 0]
    /\ chWake = 0
    /\ chTarget = NoTarget
    /\ chLast = [t \in AllTargets |-> -1]

\* RandomRestartWorkload::new and the deployed topology: any configuration.
ChNew ==
    /\ chPc = "new"
    /\ \E mn \in 0..MaxDelay, mx \in 0..MaxDelay, cd \in 0..MaxCooldown,
          iv \in BOOLEAN, ie \in BOOLEAN :
         chCfg' = [min_delay |-> mn, max_delay |-> mx, target_cooldown |-> cd,
                   include_validators |-> iv, include_executors |-> ie]
    /\ \E v \in 1..MaxValidators, x \in 0..MaxExecutors, h \in BOOLEAN :
         chTopo' = [validators |-> v, executors |-> x, handle |-> h]
    /\ chNow' \in {0, MaxCooldown}
    /\ chPc' = "start"
    /\ UNCHANGED <<chCooldowns, chWake, chTarget, chLast>>
    /\ UNCHANGED otherThanChaos

\* start: no node-control handle, or no eligible target.
ChStartErr ==
    /\ chPc = "start"
    /\ ~chTopo.handle \/ ChTargets = {}
    /\ chPc' = "failed"
    /\ UNCHANGED <<chNow, chCfg, chTopo, chCooldowns, chWake, chTarget, chLast>>
    /\ UNCHANGED otherThanChaos

\* start: cooldowns initialised, the loop begins with its sleep.
ChStart ==
    /\ chPc = "start"
    /\ chTopo.handle
    /\ ChTargets # {}
    /\ chCooldowns' = [t \in ChTargets |-> InitialReady(chNow, chCfg)]
    /\ chPc' = "delay"
    /\ UNCHANGED <<chNow, chCfg, chTopo, chWake, chTarget, chLast>>
    /\ UNCHANGED otherThanChaos

\* pick_target runs from instant `now` until it sleeps or returns.
Pick(now) ==
    \E r \in PickStep(now, ChTargets, chCooldowns) :
        /\ chPc' = r.pc
        /\ chWake' = r.wake
        /\ chTarget' = r.target

\* sleep(random_delay()) ends; pick_target starts.
ChDelay ==
    /\ chPc = "delay"
    /\ \E d \in RandomDelays(chCfg) :
         /\ chNow + d <= MaxTime
         /\ chNow' = chNow + d
         /\ Pick(chNow + d)
    /\ UNCHANGED <<chCfg, chTopo, chCooldowns, chLast>>
    /\ UNCHANGED otherThanChaos

\* pick_target: sleep(wait) ends; the loop runs again.
ChPickWake ==
    /\ chPc = "pickSleep"
    /\ chWake <= MaxTime
    /\ chNow' = chWake
    /\ Pick(chWake)
    /\ UNCHANGED <<chCfg, chTopo, chCooldowns, chLast>>
    /\ UNCHANGED otherThanChaos

\* restart_validator / restart_executor returns Ok: the cooldown is stored.
ChRestartOk ==
    /\ chPc = "restart"
    /\ \E r \in 0..MaxRestartTime :
         /\ chNow + r <= MaxTime
         /\ chNow' = chNow + r
         /\ chCooldowns' = [chCooldowns EXCEPT ![chTarget] = CooldownUntil(chNow + r, chCfg)]
         /\ chLast' = [chLast EXCEPT ![chTarget] = chNow + r]
    /\ chPc' = "delay"
    /\ UNCHANGED <<chCfg, chTopo, chWake, chTarget>>
    /\ UNCHANGED otherThanChaos

\* restart_validator / restart_executor returns Err: start returns it.
ChRestartErr ==
    /\ chPc = "restart"
    /\ chPc' = "failed"
    /\ UNCHANGED <<chNow, chCfg, chTopo, chCooldowns, chWake, chTarget, chLast>>
    /\ UNCHANGED otherThanChaos

ChaosNext ==
    \/ ChNew
    \/ ChStartErr
    \/ ChStart
    \/ ChDelay
    \/ ChPickWake
    \/ ChRestartOk
    \/ ChRestartErr


\* ===================================================================
\* The runner and the expectations' start_capture
\* ===================================================================

AllWorkloads == <<"transaction", "da", "chaos">>

\* Workload::expectations of each workload.
WorkloadExpectations(w) ==
    IF w = "transaction" THEN <<"tx_inclusion">>
    ELSE IF w = "da" THEN <<"da_workload_inclusions">>
    ELSE <<>>

RECURSIVE SubSeq2(_, _)
\* The elements of sequence q that are in set S, in q's order.
SubSeq2(q, S) ==
    IF q = <<>> THEN <<>>
    ELSE (IF Head(q) \in S THEN <<Head(q)>> ELSE <<>>) \o SubSeq2(Tail(q), S)

RECURSIVE Contributed(_)
\* The expectations the workloads of q contribute, in order.
Contributed(q) ==
    IF q = <<>> THEN <<>> ELSE WorkloadExpectations(Head(q)) \o Contributed(Tail(q))

\* Mutant of CaptureSubscribes: the transaction expectation subscribes inside
\* its capture task, after start_capture has returned.
CaptureSubscribesInTask(e) == e = "da_workload_inclusions"

\* start_capture of the transaction and DA expectations subscribes to the
\* block feed before it spawns the capture task and returns.
CaptureSubscribes(e) == e \in {"tx_inclusion", "da_workload_inclusions"}

\* start_capture can fail: the transaction expectation, on missing accounts
\* or an empty plan.
CaptureCanFail(e) == e = "tx_inclusion"

\* Workloads whose start submits to the cluster.
Submits(w) == w \in {"transaction", "da"}

RunnerInit ==
    /\ rnPhase = "new"
    /\ rnWorkloads = <<>>
    /\ rnExpect = <<>>
    /\ rnIdx = 1
    /\ rnStarted = {}
    /\ rnCaptureState = {}
    /\ rnReceivers = {}
    /\ rnWl = [w \in {} |-> "idle"]
    /\ rnSubmitted = {}
    /\ rnFailed = {}

\* A scenario is built: any set of workloads, with or without the
\* consensus-liveness expectation.
RnBuild ==
    /\ rnPhase = "new"
    /\ \E S \in SUBSET {"transaction", "da", "chaos"}, live \in BOOLEAN :
         LET ws == SubSeq2(AllWorkloads, S)
         IN /\ rnWorkloads' = ws
            /\ rnExpect' = (IF live THEN <<"consensus_liveness">> ELSE <<>>) \o Contributed(ws)
            /\ rnWl' = [w \in S |-> "idle"]
    /\ rnPhase' = "init"
    /\ rnIdx' = 1
    /\ UNCHANGED <<rnStarted, rnCaptureState, rnReceivers, rnSubmitted, rnFailed>>
    /\ UNCHANGED otherThanRunner

\* Init phase: Workload::init of the next workload returns Ok.
RnInitOk ==
    /\ rnPhase = "init"
    /\ rnIdx <= Len(rnWorkloads)
    /\ rnIdx' = rnIdx + 1
    /\ UNCHANGED <<rnPhase, rnWorkloads, rnExpect, rnStarted, rnCaptureState,
                   rnReceivers, rnWl, rnSubmitted, rnFailed>>
    /\ UNCHANGED otherThanRunner

\* Init phase: Workload::init fails (the transaction workload's); the run is
\* aborted.
RnInitErr ==
    /\ rnPhase = "init"
    /\ rnIdx <= Len(rnWorkloads)
    /\ rnWorkloads[rnIdx] = "transaction"
    /\ rnPhase' = "failed"
    /\ UNCHANGED <<rnWorkloads, rnExpect, rnIdx, rnStarted, rnCaptureState,
                   rnReceivers, rnWl, rnSubmitted, rnFailed>>
    /\ UNCHANGED otherThanRunner

\* Every workload is initialised: the capture phase begins.
RnInitDone ==
    /\ rnPhase = "init"
    /\ rnIdx > Len(rnWorkloads)
    /\ rnPhase' = "capture"
    /\ rnIdx' = 1
    /\ UNCHANGED <<rnWorkloads, rnExpect, rnStarted, rnCaptureState, rnReceivers,
                   rnWl, rnSubmitted, rnFailed>>
    /\ UNCHANGED otherThanRunner

\* Capture phase: start_capture of the next expectation returns Ok. With no
\* capture state yet, the transaction and DA expectations subscribe, spawn
\* their capture task and set capture_state.
RnCaptureOk ==
    /\ rnPhase = "capture"
    /\ rnIdx <= Len(rnExpect)
    /\ LET e == rnExpect[rnIdx]
       IN /\ rnStarted' = rnStarted \cup {e}
          /\ IF e \in rnCaptureState \/ e = "consensus_liveness"
               THEN UNCHANGED <<rnCaptureState, rnReceivers>>
               ELSE /\ rnCaptureState' = rnCaptureState \cup {e}
                    /\ rnReceivers' = IF CaptureSubscribes(e)
                                        THEN rnReceivers \cup {e} ELSE rnReceivers
    /\ rnIdx' = rnIdx + 1
    /\ UNCHANGED <<rnPhase, rnWorkloads, rnExpect, rnWl, rnSubmitted, rnFailed>>
    /\ UNCHANGED otherThanRunner

\* Capture phase: start_capture returns Err; the run ends with
\* ScenarioError::ExpectationCapture.
RnCaptureErr ==
    /\ rnPhase = "capture"
    /\ rnIdx <= Len(rnExpect)
    /\ CaptureCanFail(rnExpect[rnIdx])
    /\ rnPhase' = "failed"
    /\ UNCHANGED <<rnWorkloads, rnExpect, rnIdx, rnStarted, rnCaptureState,
                   rnReceivers, rnWl, rnSubmitted, rnFailed>>
    /\ UNCHANGED otherThanRunner

\* The capture phase is over when start_capture was called on every
\* expectation.
CaptureComplete == rnIdx > Len(rnExpect)

\* Launch: every workload's start future is spawned.
RnLaunch ==
    /\ rnPhase = "capture"
    /\ CaptureComplete
    /\ rnPhase' = "run"
    /\ rnWl' = [w \in DOMAIN rnWl |-> "spawned"]
    /\ UNCHANGED <<rnWorkloads, rnExpect, rnIdx, rnStarted, rnCaptureState,
                   rnReceivers, rnSubmitted, rnFailed>>
    /\ UNCHANGED otherThanRunner

\* A workload's start is polled for the first time.
RnPoll(w) ==
    /\ rnPhase = "run"
    /\ rnWl[w] = "spawned"
    /\ rnWl' = [rnWl EXCEPT ![w] = "running"]
    /\ UNCHANGED <<rnPhase, rnWorkloads, rnExpect, rnIdx, rnStarted, rnCaptureState,
                   rnReceivers, rnSubmitted, rnFailed>>
    /\ UNCHANGED otherThanRunner

\* A running workload submits a transaction or a blob.
RnSubmit(w) ==
    /\ rnPhase = "run"
    /\ rnWl[w] = "running"
    /\ Submits(w)
    /\ rnSubmitted' = rnSubmitted \cup {w}
    /\ UNCHANGED <<rnPhase, rnWorkloads, rnExpect, rnIdx, rnStarted, rnCaptureState,
                   rnReceivers, rnWl, rnFailed>>
    /\ UNCHANGED otherThanRunner

\* A workload's start returns Ok.
RnWorkloadDone(w) ==
    /\ rnPhase = "run"
    /\ rnWl[w] = "running"
    /\ rnWl' = [rnWl EXCEPT ![w] = "done"]
    /\ UNCHANGED <<rnPhase, rnWorkloads, rnExpect, rnIdx, rnStarted, rnCaptureState,
                   rnReceivers, rnSubmitted, rnFailed>>
    /\ UNCHANGED otherThanRunner

\* The wait ends: every workload completed, one returned an error, or the
\* deadline fired; the workloads still running are cancelled.
RnWaitEnds ==
    /\ rnPhase = "run"
    /\ \E cause \in {"all_done", "error", "deadline"} :
         /\ cause = "all_done" => \A w \in DOMAIN rnWl : rnWl[w] = "done"
         /\ cause = "error" => \E w \in DOMAIN rnWl : rnWl[w] = "running"
         /\ \E f \in (IF cause = "error" THEN {w \in DOMAIN rnWl : rnWl[w] = "running"}
                                          ELSE {"none"}) :
              rnWl' = [w \in DOMAIN rnWl |->
                         IF w = f THEN "failed"
                         ELSE IF rnWl[w] = "done" THEN "done" ELSE "cancelled"]
    /\ rnPhase' = "evaluate"
    /\ rnIdx' = 1
    /\ UNCHANGED <<rnWorkloads, rnExpect, rnStarted, rnCaptureState, rnReceivers,
                   rnSubmitted, rnFailed>>
    /\ UNCHANGED otherThanRunner

\* Evaluate phase: evaluate of the next expectation passes or fails; failures
\* are collected.
RnEvaluate ==
    /\ rnPhase = "evaluate"
    /\ rnIdx <= Len(rnExpect)
    /\ \E pass \in BOOLEAN :
         rnFailed' = IF pass THEN rnFailed ELSE rnFailed \cup {rnExpect[rnIdx]}
    /\ rnIdx' = rnIdx + 1
    /\ UNCHANGED <<rnPhase, rnWorkloads, rnExpect, rnStarted, rnCaptureState,
                   rnReceivers, rnWl, rnSubmitted>>
    /\ UNCHANGED otherThanRunner

\* Every expectation was evaluated: the run returns its result.
RnResult ==
    /\ rnPhase = "evaluate"
    /\ rnIdx > Len(rnExpect)
    /\ rnPhase' = IF rnFailed = {} /\ \A w \in DOMAIN rnWl : rnWl[w] # "failed"
                    THEN "ok" ELSE "failed"
    /\ UNCHANGED <<rnWorkloads, rnExpect, rnIdx, rnStarted, rnCaptureState,
                   rnReceivers, rnWl, rnSubmitted, rnFailed>>
    /\ UNCHANGED otherThanRunner

RunnerNext ==
    \/ RnBuild
    \/ RnInitOk
    \/ RnInitErr
    \/ RnInitDone
    \/ RnCaptureOk
    \/ RnCaptureErr
    \/ RnLaunch
    \/ \E w \in DOMAIN rnWl : RnPoll(w)
    \/ \E w \in DOMAIN rnWl : RnSubmit(w)
    \/ \E w \in DOMAIN rnWl : RnWorkloadDone(w)
    \/ RnWaitEnds
    \/ RnEvaluate
    \/ RnResult

\* ===================================================================
\* The deployers (compose, k8s, local) and the compose cleanup guard
\* ===================================================================

\* lifecycle/block_feed.rs: BLOCK_FEED_MAX_ATTEMPTS, BLOCK_FEED_RETRY_DELAY
\* (seconds); environment.rs: STACK_BRINGUP_MAX_ATTEMPTS.
BlockFeedMaxAttempts == 5
BlockFeedRetryDelay == 1
StackBringupMaxAttempts == 3

Backends == {"compose", "k8s", "local"}

\* What a deployment has created so far, and who owns it.
\*   workspace : the ComposeWorkspace temp dir ("none", "exists", "removed", "kept")
\*   envWs     : StackEnvironment::workspace is Some
\*   stack     : the compose stack / helm release ("none", "up", "down")
\*   down      : runs of docker compose down (or of the k8s teardown)
\*   cfg       : the cfgsync container ("none", "running", "removed")
\*   stopped   : CfgsyncServerHandle::Container::stopped
\*   rm        : runs of docker rm on the handle's container
\*   cfgOwner  : where the handle lives ("none", "local", "env", "cleanup", "dropped")
\*   cleanups  : invocations of the environment's cleanup guard
\*   clients, feed : node clients built, block feed task running
\*   panic     : an expect() failed
NoWorld ==
    [workspace |-> "none", envWs |-> FALSE, stack |-> "none", down |-> 0,
     cfg |-> "none", stopped |-> FALSE, rm |-> 0, cfgOwner |-> "none",
     cleanups |-> 0, clients |-> FALSE, feed |-> FALSE, panic |-> FALSE]

NoInput ==
    [backend |-> "local", caps |-> FALSE, chaos |-> FALSE, docker |-> TRUE,
     validators |-> 1, preserve |-> FALSE, readiness_checks |-> TRUE,
     locked |-> FALSE]

\* CfgsyncServerHandle::shutdown: docker rm -f unless already stopped.
Shutdown(w) ==
    IF w.cfgOwner \in {"none", "dropped"} \/ w.stopped THEN w
    ELSE [w EXCEPT !.cfg = "removed", !.stopped = TRUE, !.rm = @ + 1]

\* impl Drop for CfgsyncServerHandle: drop calls shutdown.
DropHandle(w) ==
    IF w.cfgOwner \in {"none", "dropped"} THEN w
    ELSE [Shutdown(w) EXCEPT !.cfgOwner = "dropped"]

\* Dropping a ComposeWorkspace removes its temp dir.
DropWorkspace(w) ==
    IF w.workspace = "exists" THEN [w EXCEPT !.workspace = "removed"] ELSE w

\* RunnerCleanup::should_preserve.
ShouldPreserve(in) == in.preserve

\* RunnerCleanup::persist_workspace: the temp dir is kept.
PersistWorkspace(w) ==
    IF w.workspace = "exists" THEN [w EXCEPT !.workspace = "kept"] ELSE w

\* RunnerCleanup::teardown_compose: docker compose down.
TeardownCompose(w) == [w EXCEPT !.stack = "down", !.down = @ + 1]

\* CleanupGuard::cleanup of RunnerCleanup, the drop of the consumed guard at
\* its end included.
RunnerCleanupCleanup(w, in) ==
    LET c == [w EXCEPT !.cleanups = @ + 1]
    IN IF ShouldPreserve(in)
         THEN DropHandle(PersistWorkspace(c))
         ELSE DropHandle(DropWorkspace(Shutdown(TeardownCompose(c))))

\* StackEnvironment::take_cleanup: takes the workspace and the handle out of
\* the environment; expects the workspace to be there.
TakeCleanup(w) ==
    IF ~w.envWs THEN [w EXCEPT !.panic = TRUE]
    ELSE [w EXCEPT !.envWs = FALSE,
                   !.cfgOwner = IF @ = "env" THEN "cleanup" ELSE @]

\* StackEnvironment::fail: dump the logs, take the cleanup guard, run it.
Fail(w, in) ==
    LET t == TakeCleanup(w)
    IN IF t.panic THEN t ELSE RunnerCleanupCleanup(t, in)

\* The StackEnvironment is dropped: what it still owns is dropped with it.
DropEnv(w) ==
    LET a == IF w.envWs THEN [DropWorkspace(w) EXCEPT !.envWs = FALSE] ELSE w
    IN IF a.cfgOwner = "env" THEN DropHandle(a) ELSE a

\* ClusterEnvironment::fail of the k8s deployer: the release is torn down.
K8sFail(w) == [w EXCEPT !.stack = "down", !.down = @ + 1, !.cleanups = @ + 1]

\* DeploymentOrchestrator::maybe_node_control (compose); the k8s and local
\* deployers pass None.
NodeControlOf(in) ==
    IF in.backend = "compose" /\ in.caps THEN "some" ELSE "none"

\* Attempts spawn_block_feed_with_retry makes (compose); the k8s and local
\* deployers call spawn_block_feed once.
FeedAttempts(in) == IF in.backend = "compose" THEN BlockFeedMaxAttempts ELSE 1

\* Mutant of RetryPause: no pause between attempts.
RetryPauseNone(attempt, in) == 0

\* The sleep after failed attempt number `attempt`.
RetryPause(attempt, in) ==
    IF attempt < FeedAttempts(in) THEN BlockFeedRetryDelay ELSE 0

\* Mutant of DockerCheck: the outcome of docker info is ignored.
DockerCheckIgnored(in) == "ok"

\* ensure_docker_available, then ensure_supported_topology.
DockerCheck(in) ==
    IF ~in.docker THEN "DockerUnavailable"
    ELSE IF in.validators = 0 THEN "MissingValidator"
    ELSE "ok"

\* What deploy does to the environment when metrics_handle_from_port fails:
\* compose returns through `?` (the environment is only dropped); k8s calls
\* fail first.
TelemetryFailure(w, in) ==
    IF in.backend = "k8s" THEN K8sFail(w) ELSE w

\* What a deployer does when a step other than telemetry fails.
StepFailure(w, in) ==
    IF in.backend = "k8s" THEN K8sFail(w) ELSE Fail(w, in)

DeployInit ==
    /\ dpPc = "new"
    /\ dpIn = NoInput
    /\ dpW = NoWorld
    /\ dpErr = "none"
    /\ dpBring = 0
    /\ dpFeedTry = 0
    /\ dpSlept = 0
    /\ dpNodeControl = "unset"
    /\ dpRunErr = FALSE
    /\ dpUp = FALSE

\* A scenario is handed to a deployer. The k8s and local deployers implement
\* Deployer<()> only, so they take scenarios without the node-control
\* capability; the fluent chaos builder needs the capability, with_workload
\* attaches a RandomRestartWorkload to any builder.
DpNew ==
    /\ dpPc = "new"
    /\ \E b \in Backends, caps \in BOOLEAN, chaos \in BOOLEAN, docker \in BOOLEAN,
          v \in 0..1, pr \in BOOLEAN, rc \in BOOLEAN, lk \in BOOLEAN :
         /\ b \in {"k8s", "local"} => ~caps
         /\ b # "compose" => (docker /\ ~lk /\ v = 1)
         /\ b = "local" => ~pr
         /\ dpIn' = [backend |-> b, caps |-> caps, chaos |-> chaos, docker |-> docker,
                     validators |-> v, preserve |-> pr, readiness_checks |-> rc,
                     locked |-> lk]
         /\ dpPc' = IF b = "compose" THEN "validate"
                    ELSE IF b = "k8s" THEN "k8sSetup" ELSE "localPrepare"
    /\ UNCHANGED <<dpW, dpErr, dpBring, dpFeedTry, dpSlept, dpNodeControl, dpRunErr, dpUp>>
    /\ UNCHANGED otherThanDeploy

\* deploy is left with Err(e). When the failure was reported to the compose
\* environment (fail has run), the environment is still held; otherwise it is
\* dropped with the return.
ReturnErr(e, w) ==
    /\ dpErr' = e
    /\ IF dpIn.backend = "compose" /\ w.cleanups > dpW.cleanups
         THEN dpPc' = "reported" /\ dpW' = w
         ELSE dpPc' = "returnedErr" /\ dpW' = DropEnv(w)

\* DeploymentSetup::validate_environment.
DpValidate ==
    /\ dpPc = "validate"
    /\ IF DockerCheck(dpIn) = "ok"
         THEN dpPc' = "prepare" /\ UNCHANGED <<dpW, dpErr>>
         ELSE ReturnErr(DockerCheck(dpIn), dpW)
    /\ UNCHANGED <<dpIn, dpBring, dpFeedTry, dpSlept, dpNodeControl, dpRunErr, dpUp>>
    /\ UNCHANGED otherThanDeploy

\* prepare_environment up to the bring-up loop: workspace, cfgsync config,
\* image.
DpPrepare ==
    /\ dpPc = "prepare"
    /\ \E r \in {"ok", "Workspace", "Config"} :
         IF r = "ok"
           THEN /\ dpW' = [dpW EXCEPT !.workspace = "exists"]
                /\ dpPc' = "bringup"
                /\ UNCHANGED dpErr
           ELSE IF r = "Workspace"
             THEN ReturnErr(r, dpW)
             ELSE ReturnErr(r, DropWorkspace([dpW EXCEPT !.workspace = "exists"]))
    /\ UNCHANGED <<dpIn, dpBring, dpFeedTry, dpSlept, dpNodeControl, dpRunErr, dpUp>>
    /\ UNCHANGED otherThanDeploy

\* One turn of the bring-up loop of prepare_environment: start cfgsync, then
\* compose up; on failure the handle is shut down (bring_up_stack), shut
\* down again (prepare_environment) and dropped.
DpBringUp ==
    /\ dpPc = "bringup"
    /\ \E r \in {"ok", "Config", "Compose"} :
         LET started == [dpW EXCEPT !.cfg = "running", !.stopped = FALSE,
                                    !.rm = 0, !.cfgOwner = "local"]
             attempts == IF dpIn.locked THEN 1 ELSE StackBringupMaxAttempts
         IN IF r = "ok"
              THEN /\ dpW' = [started EXCEPT !.stack = "up", !.envWs = TRUE,
                                             !.cfgOwner = "env"]
                   /\ dpUp' = TRUE
                   /\ dpPc' = "ports"
                   /\ UNCHANGED <<dpErr, dpBring>>
              ELSE IF r = "Config"
                THEN /\ ReturnErr(r, DropWorkspace(dpW))
                     /\ UNCHANGED <<dpBring, dpUp>>
                ELSE LET failed == DropHandle(Shutdown(Shutdown(started)))
                     IN /\ dpBring' = dpBring + 1
                        /\ UNCHANGED dpUp
                        /\ IF dpBring + 1 >= attempts
                             THEN ReturnErr(r, DropWorkspace(failed))
                             ELSE /\ dpW' = [failed EXCEPT !.cfgOwner = "none"]
                                  /\ UNCHANGED <<dpPc, dpErr>>
    /\ UNCHANGED <<dpIn, dpFeedTry, dpSlept, dpNodeControl, dpRunErr>>
    /\ UNCHANGED otherThanDeploy

\* A step that reports its failure to the environment before deploy returns:
\* on Ok deploy goes on to `next`.
Step(next, e) ==
    \E ok \in BOOLEAN :
        IF ok THEN dpPc' = next /\ UNCHANGED <<dpW, dpErr>>
        ELSE ReturnErr(e, StepFailure(dpW, dpIn))

\* PortManager::prepare.
DpPorts ==
    /\ dpPc = "ports"
    /\ Step(IF dpIn.readiness_checks THEN "readiness" ELSE "clients", "PortDiscovery")
    /\ UNCHANGED <<dpIn, dpBring, dpFeedTry, dpSlept, dpNodeControl, dpRunErr, dpUp>>
    /\ UNCHANGED otherThanDeploy

\* ReadinessChecker::wait_all.
DpReadiness ==
    /\ dpPc = "readiness"
    /\ Step("clients", "Readiness")
    /\ UNCHANGED <<dpIn, dpBring, dpFeedTry, dpSlept, dpNodeControl, dpRunErr, dpUp>>
    /\ UNCHANGED otherThanDeploy

\* ClientBuilder::build_node_clients (compose), build_node_clients (k8s).
DpClients ==
    /\ dpPc = "clients"
    /\ \E ok \in BOOLEAN :
         IF ok THEN /\ dpW' = [dpW EXCEPT !.clients = TRUE]
                    /\ dpPc' = "telemetry"
                    /\ UNCHANGED dpErr
         ELSE ReturnErr("NodeClients", StepFailure(dpW, dpIn))
    /\ UNCHANGED <<dpIn, dpBring, dpFeedTry, dpSlept, dpNodeControl, dpRunErr, dpUp>>
    /\ UNCHANGED otherThanDeploy

\* metrics_handle_from_port, then maybe_node_control.
DpTelemetry ==
    /\ dpPc = "telemetry"
    /\ \E ok \in BOOLEAN :
         IF ok THEN /\ dpNodeControl' = NodeControlOf(dpIn)
                    /\ dpPc' = "feed"
                    /\ UNCHANGED <<dpW, dpErr>>
         ELSE /\ ReturnErr("Telemetry", TelemetryFailure(dpW, dpIn))
              /\ UNCHANGED dpNodeControl
    /\ UNCHANGED <<dpIn, dpBring, dpFeedTry, dpSlept, dpRunErr, dpUp>>
    /\ UNCHANGED otherThanDeploy

\* One attempt of spawn_block_feed_with_retry (compose) or the single call of
\* spawn_block_feed_with (k8s, local). On Ok the environment becomes the
\* cleanup guard handed to the Runner.
DpFeedAttempt ==
    /\ dpPc = "feed"
    /\ dpFeedTry < FeedAttempts(dpIn)
    /\ dpFeedTry' = dpFeedTry + 1
    /\ \E ok \in BOOLEAN :
         IF ok
           THEN /\ dpW' = [dpW EXCEPT !.feed = TRUE, !.envWs = FALSE,
                              !.cfgOwner = IF @ = "env" THEN "cleanup" ELSE @]
                /\ dpPc' = "ready"
                /\ UNCHANGED <<dpErr, dpSlept>>
           ELSE /\ dpSlept' = dpSlept + RetryPause(dpFeedTry + 1, dpIn)
                /\ IF dpFeedTry + 1 < FeedAttempts(dpIn)
                     THEN UNCHANGED <<dpW, dpPc, dpErr>>
                     ELSE ReturnErr("BlockFeed",
                                    IF dpIn.backend = "local" THEN dpW
                                    ELSE StepFailure(dpW, dpIn))
    /\ UNCHANGED <<dpIn, dpBring, dpNodeControl, dpRunErr, dpUp>>
    /\ UNCHANGED otherThanDeploy

\* K8sDeployer::deploy up to setup_cluster: the release is installed.
DpK8sSetup ==
    /\ dpPc = "k8sSetup"
    /\ \E ok \in BOOLEAN :
         IF ok THEN /\ dpW' = [dpW EXCEPT !.stack = "up"]
                    /\ dpUp' = TRUE
                    /\ dpPc' = "clients"
                    /\ UNCHANGED dpErr
         ELSE ReturnErr("Cluster", dpW) /\ UNCHANGED dpUp
    /\ UNCHANGED <<dpIn, dpBring, dpFeedTry, dpSlept, dpNodeControl, dpRunErr>>
    /\ UNCHANGED otherThanDeploy

\* LocalDeployer::prepare_topology, NodeClients::from_topology.
DpLocalPrepare ==
    /\ dpPc = "localPrepare"
    /\ \E ok \in BOOLEAN :
         IF ok THEN /\ dpW' = [dpW EXCEPT !.clients = TRUE]
                    /\ dpNodeControl' = NodeControlOf(dpIn)
                    /\ dpPc' = "feed"
                    /\ UNCHANGED dpErr
         ELSE ReturnErr("ReadinessFailed", dpW) /\ UNCHANGED dpNodeControl
    /\ UNCHANGED <<dpIn, dpBring, dpFeedTry, dpSlept, dpRunErr, dpUp>>
    /\ UNCHANGED otherThanDeploy

\* deploy returns the error after fail has run: the environment is dropped.
DpReturn ==
    /\ dpPc = "reported"
    /\ dpW' = DropEnv(dpW)
    /\ dpPc' = "returnedErr"
    /\ UNCHANGED <<dpIn, dpErr, dpBring, dpFeedTry, dpSlept, dpNodeControl, dpRunErr, dpUp>>
    /\ UNCHANGED otherThanDeploy

\* The holder of the StackEnvironment reports a second failure before it lets
\* go of the environment (fail is public and takes &mut self).
DpFailAgain ==
    /\ dpPc = "reported"
    /\ dpW' = Fail(dpW, dpIn)
    /\ dpPc' = IF Fail(dpW, dpIn).panic THEN "panicked" ELSE dpPc
    /\ UNCHANGED <<dpIn, dpErr, dpBring, dpFeedTry, dpSlept, dpNodeControl, dpRunErr, dpUp>>
    /\ UNCHANGED otherThanDeploy

\* RandomRestartWorkload::start on the deployed context: without a
\* node-control handle it returns its error.
DpChaosStart ==
    /\ dpPc = "ready"
    /\ dpIn.chaos
    /\ ~dpRunErr
    /\ dpNodeControl = "none"
    /\ dpRunErr' = TRUE
    /\ UNCHANGED <<dpPc, dpIn, dpW, dpErr, dpBring, dpFeedTry, dpSlept, dpNodeControl, dpUp>>
    /\ UNCHANGED otherThanDeploy

\* The Runner's cleanup guard is invoked: ComposeCleanupGuard / K8sCleanupGuard
\* stop the block feed, then clean the environment; the local guard is the
\* block feed task alone.
DpGuardCleanup ==
    /\ dpPc = "ready"
    /\ LET w == [dpW EXCEPT !.feed = FALSE]
       IN dpW' = IF dpIn.backend = "compose" THEN RunnerCleanupCleanup(w, dpIn)
                 ELSE IF dpIn.backend = "k8s" THEN K8sFail(w)
                 ELSE w
    /\ dpPc' = "finished"
    /\ UNCHANGED <<dpIn, dpErr, dpBring, dpFeedTry, dpSlept, dpNodeControl, dpRunErr, dpUp>>
    /\ UNCHANGED otherThanDeploy

DeployNext ==
    \/ DpNew
    \/ DpValidate
    \/ DpPrepare
    \/ DpBringUp
    \/ DpPorts
    \/ DpReadiness
    \/ DpClients
    \/ DpTelemetry
    \/ DpFeedAttempt
    \/ DpK8sSetup
    \/ DpLocalPrepare
    \/ DpReturn
    \/ DpFailAgain
    \/ DpChaosStart
    \/ DpGuardCleanup

\* ===================================================================
\* The consensus-liveness expectation
\* ===================================================================

\* consensus_liveness.rs: LAG_ALLOWANCE, MIN_PROGRESS_BLOCKS,
\* REQUEST_RETRIES, MAX_LAG_ALLOWANCE.
LagAllowance == 2
MinProgressBlocks == 5
RequestRetries == 5
MaxLagAllowanceCap == 5

\* The outcome of an operation that panicked.
Panicked == -1

\* Heights a node may report: 0..MaxHeight, and BigHeight, whose tenth is
\* above MAX_LAG_ALLOWANCE.
Heights == 0..MaxHeight \cup {BigHeight}

\* Ord::clamp: asserts min <= max.
Clamp(x, lo, hi) ==
    IF lo > hi THEN Panicked
    ELSE IF x < lo THEN lo
    ELSE IF x > hi THEN hi
    ELSE x

\* ConsensusLiveness::effective_lag_allowance.
EffectiveLagAllowance(lag, target) == Clamp(target \div 10, lag, MaxLagAllowanceCap)

RECURSIVE MaxOfSeq(_)
\* samples.iter().map(height).max().unwrap_or(0).
MaxOfSeq(q) ==
    IF q = <<>> THEN 0
    ELSE LET m == MaxOfSeq(Tail(q)) IN IF Head(q) > m THEN Head(q) ELSE m

\* Mutant of TargetOf: the target is always the highest height.
TargetAlwaysMax(hint, maxh) == maxh

\* report: the target hint, unless it is 0 or above the highest height.
TargetOf(hint, maxh) == IF hint = 0 \/ hint > maxh THEN maxh ELSE hint

\* Mutant of NoProgress: the minimum-progress check is skipped.
NoProgressSkipped(maxh) == FALSE

\* report: the network made no real progress.
NoProgress(maxh) == maxh < MinProgressBlocks

\* report: the samples below the target by more than the allowance.
Lagging(samples, lag, target) ==
    {i \in 1..Len(samples) : samples[i] + lag < target}

NoOutcome == [result |-> "none", maxh |-> 0, target |-> 0, lag |-> 0]

\* ConsensusLiveness::report on the samples and the request failures that
\* collect_results gathered.
Report(cfgLag, hint, samples, failed) ==
    IF samples = <<>>
      THEN [NoOutcome EXCEPT !.result = "missing"]
      ELSE
        LET maxh == MaxOfSeq(samples)
            target == TargetOf(hint, maxh)
            lag == EffectiveLagAllowance(cfgLag, target)
        IN IF lag = Panicked
             THEN [result |-> "panic", maxh |-> maxh, target |-> target, lag |-> lag]
             ELSE [result |-> IF failed = {} /\ ~NoProgress(maxh)
                                   /\ Lagging(samples, lag, target) = {}
                                THEN "ok" ELSE "violations",
                   maxh |-> maxh, target |-> target, lag |-> lag]

LivenessInit ==
    /\ lvPc = "new"
    /\ lvLag = LagAllowance
    /\ lvHint = 0
    /\ lvClients = 0
    /\ lvIdx = 1
    /\ lvAttempt = 0
    /\ lvSamples = <<>>
    /\ lvFailed = {}
    /\ lvOut = NoOutcome

\* ConsensusLiveness::default, optionally with_lag_allowance; evaluate starts
\* on a run context with some clients and a target hint.
LvEvaluate ==
    /\ lvPc = "new"
    /\ lvLag' \in 0..MaxLag
    /\ lvHint' \in Heights
    /\ \E n \in 0..MaxClients :
         /\ lvClients' = n
         /\ IF n = 0
              THEN /\ lvPc' = "reported"
                   /\ lvOut' = [NoOutcome EXCEPT !.result = "missing"]
              ELSE /\ lvPc' = "collect"
                   /\ UNCHANGED lvOut
    /\ UNCHANGED <<lvIdx, lvAttempt, lvSamples, lvFailed>>
    /\ UNCHANGED otherThanLiveness

\* collect_results: consensus_info of the current node answers.
LvFetchOk ==
    /\ lvPc = "collect"
    /\ lvIdx <= lvClients
    /\ \E h \in Heights : lvSamples' = Append(lvSamples, h)
    /\ lvIdx' = lvIdx + 1
    /\ lvAttempt' = 0
    /\ UNCHANGED <<lvPc, lvLag, lvHint, lvClients, lvFailed, lvOut>>
    /\ UNCHANGED otherThanLiveness

\* collect_results: consensus_info fails; the last attempt records
\* RequestFailed, an earlier one sleeps and retries.
LvFetchErr ==
    /\ lvPc = "collect"
    /\ lvIdx <= lvClients
    /\ IF lvAttempt + 1 = RequestRetries
         THEN /\ lvFailed' = lvFailed \cup {lvIdx}
              /\ lvIdx' = lvIdx + 1
              /\ lvAttempt' = 0
         ELSE /\ lvAttempt' = lvAttempt + 1
              /\ UNCHANGED <<lvFailed, lvIdx>>
    /\ UNCHANGED <<lvPc, lvLag, lvHint, lvClients, lvSamples, lvOut>>
    /\ UNCHANGED otherThanLiveness

\* evaluate: report on what was collected.
LvReport ==
    /\ lvPc = "collect"
    /\ lvIdx > lvClients
    /\ lvOut' = Report(lvLag, lvHint, lvSamples, lvFailed)
    /\ lvPc' = "reported"
    /\ UNCHANGED <<lvLag, lvHint, lvClients, lvIdx, lvAttempt, lvSamples, lvFailed>>
    /\ UNCHANGED otherThanLiveness

LivenessNext ==
    \/ LvEvaluate
    \/ LvFetchOk
    \/ LvFetchErr
    \/ LvReport

\* ===================================================================
\* The transaction workload and the transaction-inclusion expectation
\* ===================================================================

\* transaction/expectation.rs: MIN_INCLUSION_RATIO = 0.5, as the fraction
\* MinInclusionNum / MinInclusionDen.
MinInclusionNum == 1
MinInclusionDen == 2

\* Wallet keys; a configured wallet is a sequence of distinct keys
\* (WalletAccount::deterministic derives the key from the index).
Keys == 1..MaxAccounts

\* Option::None for the user limit and the block-interval hint.
NoLimit == 0
NoHint == 0

DistinctSeqs(S, n) ==
    {q \in [1..n -> S] : \A i, j \in 1..n : i # j => q[i] # q[j]}

WalletLists == UNION {DistinctSeqs(Keys, n) : n \in 0..MaxAccounts}

NoTxInput ==
    [wallet |-> <<>>, genesis |-> {}, user_limit |-> NoLimit,
     run_secs |-> 0, hint |-> NoHint, rate |-> 1]

\* The user limit is absent, 1, or one less than the number of keys; the
\* block-interval hint is absent, 1 s or the longest run; the rate is 1 or
\* MaxRate.
TxInputs ==
    [wallet : WalletLists, genesis : SUBSET Keys,
     user_limit : {NoLimit, 1, MaxAccounts - 1},
     run_secs : 0..MaxRunSecs, hint : {NoHint, 1, MaxRunSecs},
     rate : {1, MaxRate}]

\* The accounts of a list that pass a test, in the list's order
\* (Iterator::filter_map keeps the order).
RECURSIVE FilterSeq(_, _)
FilterSeq(q, S) ==
    IF q = <<>> THEN <<>>
    ELSE IF Head(q) \in S THEN <<Head(q)>> \o FilterSeq(Tail(q), S)
    ELSE FilterSeq(Tail(q), S)

MinNat(a, b) == IF a <= b THEN a ELSE b

\* Iterator::take(n) / Vec::truncate(n).
Take(q, n) == SubSeq(q, 1, MinNat(n, Len(q)))

\* apply_user_limit.
ApplyUserLimit(items, limit) ==
    IF limit = NoLimit THEN items ELSE Take(items, MinNat(limit, Len(items)))

\* limited_user_count.
LimitedUserCount(limit, available) ==
    IF limit = NoLimit THEN available ELSE MinNat(limit, available)

\* Workload::init: the configured wallets that have a genesis output, in the
\* configured order, truncated to the user limit; an error when the wallet
\* is empty or nothing matches.
WorkloadInit(in) ==
    IF in.wallet = <<>> THEN [ok |-> FALSE, accounts |-> <<>>]
    ELSE LET accounts == ApplyUserLimit(FilterSeq(in.wallet, in.genesis),
                                        in.user_limit)
         IN [ok |-> accounts # <<>>, accounts |-> accounts]

\* block_interval_hint().unwrap_or_else(|| ctx.run_duration()).
BlockSecs(in) == IF in.hint = NoHint THEN in.run_secs ELSE in.hint

\* (run_secs / block_secs * rate).floor().clamp(0.0, u64::MAX) as u64, then
\* min(available). 0/0 is NaN, which the cast turns into 0; x/0 is
\* infinite, which the clamp and the min turn into `available`.
RequestedRoundedUp(run, block, rate, available) ==
    IF block = 0 THEN (IF run = 0 THEN 0 ELSE available)
    ELSE MinNat((run * rate + block - 1) \div block, available)

Requested(run, block, rate, available) ==
    IF block = 0 THEN (IF run = 0 THEN 0 ELSE available)
    ELSE MinNat((run * rate) \div block, available)

\* submission_plan: Ok(planned) or Err (planned = 0).
SubmissionPlan(in, available) ==
    IF available = 0 THEN 0
    ELSE Requested(in.run_secs, BlockSecs(in), in.rate, available)

\* ceil(expected * MIN_INCLUSION_RATIO).
RequiredAtLeastOne(expected) == 1

Required(expected) ==
    (expected * MinInclusionNum + MinInclusionDen - 1) \div MinInclusionDen

NoCapture == [captured |-> FALSE, expected |-> 0, observed |-> 0]

TxInit ==
    /\ txPc = "new"
    /\ txIn = NoTxInput
    /\ txAccounts = <<>>
    /\ txPlan = <<>>
    /\ txSent = <<>>
    /\ txResult = "none"
    /\ txExp = NoCapture
    /\ txVerdict = "none"

\* A scenario is built: wallet, genesis outputs of the reference node, user
\* limit, run duration, block-interval hint and rate.
TxConfigure ==
    /\ txPc = "new"
    /\ \E in \in TxInputs : txIn' = in
    /\ txPc' = "configured"
    /\ UNCHANGED <<txAccounts, txPlan, txSent, txResult, txExp, txVerdict>>
    /\ UNCHANGED otherThanTx

\* Workload::init.
TxWorkloadInit ==
    /\ txPc = "configured"
    /\ LET r == WorkloadInit(txIn)
       IN IF r.ok
          THEN /\ txAccounts' = r.accounts
               /\ txPc' = "inited"
               /\ UNCHANGED txResult
          ELSE /\ txPc' = "done"
               /\ txResult' = "initErr"
               /\ UNCHANGED txAccounts
    /\ UNCHANGED <<txIn, txPlan, txSent, txExp, txVerdict>>
    /\ UNCHANGED otherThanTx

\* TxInclusionExpectation::start_capture.
TxStartCapture ==
    /\ txPc = "inited"
    /\ LET available == LimitedUserCount(txIn.user_limit, Len(txIn.wallet))
           planned == SubmissionPlan(txIn, available)
       IN IF planned = 0
          THEN /\ txPc' = "done"
               /\ txResult' = "captureErr"
               /\ UNCHANGED txExp
          ELSE /\ txExp' = [captured |-> TRUE, expected |-> planned,
                            observed |-> 0]
               /\ txPc' = "captured"
               /\ UNCHANGED txResult
    /\ UNCHANGED <<txIn, txAccounts, txPlan, txSent, txVerdict>>
    /\ UNCHANGED otherThanTx

\* Workload::start up to the first submission: Submission::new.
TxStart ==
    /\ txPc = "captured"
    /\ LET planned == SubmissionPlan(txIn, Len(txAccounts))
       IN IF planned = 0
          THEN /\ txPc' = "done"
               /\ txResult' = "planErr"
               /\ UNCHANGED txPlan
          ELSE /\ txPlan' = Take(txAccounts, planned)
               /\ txPc' = "running"
               /\ UNCHANGED txResult
    /\ UNCHANGED <<txIn, txAccounts, txSent, txExp, txVerdict>>
    /\ UNCHANGED otherThanTx

\* VecDeque::pop_front.
PopBack(plan) == [input |-> plan[Len(plan)], rest |-> SubSeq(plan, 1, Len(plan) - 1)]

PopFront(plan) == [input |-> Head(plan), rest |-> Tail(plan)]

\* What execute does after a failed submit_wallet_transaction.
AfterTxErrorContinue == [pc |-> "running", result |-> "txErr"]

AfterTxError == [pc |-> "done", result |-> "txErr"]

\* One turn of execute's loop whose transaction is built, signed and
\* accepted by some client.
TxSubmitOk ==
    /\ txPc = "running"
    /\ txPlan # <<>>
    /\ LET p == PopFront(txPlan)
       IN /\ txPlan' = p.rest
          /\ txSent' = Append(txSent, p.input)
    /\ UNCHANGED <<txPc, txIn, txAccounts, txResult, txExp, txVerdict>>
    /\ UNCHANGED otherThanTx

\* One turn whose transaction fails to build or sign, or is refused by every
\* client: the `?` returns the error.
TxSubmitErr ==
    /\ txPc = "running"
    /\ txPlan # <<>>
    /\ txPlan' = PopFront(txPlan).rest
    /\ txPc' = AfterTxError.pc
    /\ txResult' = AfterTxError.result
    /\ UNCHANGED <<txIn, txAccounts, txSent, txExp, txVerdict>>
    /\ UNCHANGED otherThanTx

\* The queue is empty: execute returns Ok.
TxFinish ==
    /\ txPc = "running"
    /\ txPlan = <<>>
    /\ txPc' = "done"
    /\ txResult' = "ok"
    /\ UNCHANGED <<txIn, txAccounts, txPlan, txSent, txExp, txVerdict>>
    /\ UNCHANGED otherThanTx

\* The runner's deadline drops the workload's future at an await.
TxCancel ==
    /\ txPc = "running"
    /\ txPc' = "done"
    /\ txResult' = "cancelled"
    /\ UNCHANGED <<txIn, txAccounts, txPlan, txSent, txExp, txVerdict>>
    /\ UNCHANGED otherThanTx

\* The capture task receives a block with a transaction paying a tracked
\* key: observed.fetch_add(1). Only the workload's transactions pay these
\* keys; a transaction included in blocks of two forks is counted twice.
TxObserve ==
    /\ txExp.captured
    /\ txSent # <<>>
    /\ txVerdict = "none"
    /\ txExp.observed < MaxObserved
    /\ txExp' = [txExp EXCEPT !.observed = @ + 1]
    /\ UNCHANGED <<txPc, txIn, txAccounts, txPlan, txSent, txResult, txVerdict>>
    /\ UNCHANGED otherThanTx

\* TxInclusionExpectation::evaluate.
Evaluate(exp) ==
    IF ~exp.captured THEN "notCaptured"
    ELSE IF exp.observed >= Required(exp.expected) THEN "pass" ELSE "fail"

TxEvaluate ==
    /\ txPc = "done"
    /\ txResult \in {"ok", "cancelled", "txErr", "planErr"}
    /\ txVerdict = "none"
    /\ txVerdict' = Evaluate(txExp)
    /\ UNCHANGED <<txPc, txIn, txAccounts, txPlan, txSent, txResult, txExp>>
    /\ UNCHANGED otherThanTx

TxNext ==
    \/ TxConfigure
    \/ TxWorkloadInit
    \/ TxStartCapture
    \/ TxStart
    \/ TxSubmitOk
    \/ TxSubmitErr
    \/ TxFinish
    \/ TxCancel
    \/ TxObserve
    \/ TxEvaluate

\* ===================================================================
\* The DA inclusion expectation
\* ===================================================================

\* da/workload.rs: DEFAULT_BLOB_RATE_PER_BLOCK.
DefaultBlobRate == 1

\* da/expectation.rs: MIN_INCLUSION_RATIO = 0.8, as the fraction
\* DaInclusionNum / DaInclusionDen.
DaInclusionNum == 4
DaInclusionDen == 5

\* u64 arithmetic on a word of WordBits bits: u64::MAX, saturating_mul,
\* and the unchecked `+` and `-`, which wrap in a release build.
U64Max == 2^WordBits - 1
SaturatingMul(a, b) == IF a * b > U64Max THEN U64Max ELSE a * b
WrappingAdd(a, b) == (a + b) % (U64Max + 1)
WrappingSub(a, b) == (a - b) % (U64Max + 1)

\* planned_blob_count: the rate times max(1, expected blocks), saturating.
PlannedBlobCount(rate, blocks) ==
    SaturatingMul(rate, IF blocks > 1 THEN blocks ELSE 1)

\* planned_channel_ids: the planned channels, and one channel more that
\* some other client inscribes.
PlannedIds(count) == 1..count
ForeignChannel(count) == count + 1

\* minimum_required / minimum_required_u64: ceil(total * 0.8).
MinimumRequiredAll(total) == total

MinimumRequired(total) ==
    (total * DaInclusionNum + DaInclusionDen - 1) \div DaInclusionDen

NoDxInput == [channel_rate |-> 1, headroom |-> 0, blob_rate |-> 1, blocks |-> 1]

\* The lowest and the highest channel rate and block count, with and without
\* the default headroom, at the default blob rate.
DxInputs ==
    [channel_rate : {1, MaxChannelRate}, headroom : {0, DefaultHeadroomPercent},
     blob_rate : {DefaultBlobRate}, blocks : {1, MaxExpectedBlocks}]

NoDxCapture ==
    [captured |-> FALSE, planned |-> {}, inscriptions |-> {}, blobs |-> <<>>,
     expected_total_blobs |-> 0]

\* Sum of a sequence of counters (blobs.values().sum()).
RECURSIVE SumSeq(_)
SumSeq(q) == IF q = <<>> THEN 0 ELSE Head(q) + SumSeq(Tail(q))

\* The operations a block may carry: inscriptions and blobs on the planned
\* channels and on the foreign one.
DxOps(count) ==
    {"inscribe", "blob"} \X (PlannedIds(count) \cup {ForeignChannel(count)})

\* Blocks with one operation, and blocks with an inscription and a blob of
\* one channel.
DxBlocks(count) ==
    {<<o>> : o \in DxOps(count)} \cup
    {<<<<"inscribe", c>>, <<"blob", c>>>> :
        c \in PlannedIds(count) \cup {ForeignChannel(count)}}

\* capture_block: the planned channels inscribed by the block join the set;
\* every blob operation on a planned channel adds one to its counter.
RECURSIVE CaptureBlock(_, _)
CaptureBlock(cap, block) ==
    IF block = <<>> THEN cap
    ELSE LET op == Head(block)
             c == op[2]
             next ==
                IF c \notin cap.planned THEN cap
                ELSE IF op[1] = "inscribe"
                THEN [cap EXCEPT !.inscriptions = @ \cup {c}]
                ELSE [cap EXCEPT !.blobs[c] = @ + 1]
         IN CaptureBlock(next, Tail(block))

\* DaWorkloadExpectation::evaluate.
DaEvaluate(cap) ==
    IF ~cap.captured THEN "notCaptured"
    ELSE LET planned_total == Cardinality(cap.planned)
             missing == cap.planned \ cap.inscriptions
         IN IF SaturatingSub(planned_total, Cardinality(missing))
                 < MinimumRequired(planned_total)
            THEN "missingInscriptions"
            ELSE IF SumSeq(cap.blobs) < MinimumRequired(cap.expected_total_blobs)
            THEN "missingBlobs"
            ELSE "pass"

DxInit ==
    /\ dxPc = "new"
    /\ dxIn = NoDxInput
    /\ dxCap = NoDxCapture
    /\ dxVerdict = "none"

\* DaWorkloadExpectation::new with the workload's rates, then start_capture.
DxStartCapture ==
    /\ dxPc = "new"
    /\ \E in \in DxInputs :
         LET count == PlannedChannelCount(in.channel_rate, in.headroom)
         IN /\ dxIn' = in
            /\ dxCap' = [captured |-> TRUE,
                         planned |-> PlannedIds(count),
                         inscriptions |-> {},
                         blobs |-> [c \in PlannedIds(count) |-> 0],
                         expected_total_blobs |->
                             PlannedBlobCount(in.blob_rate, in.blocks)]
    /\ dxPc' = "capturing"
    /\ UNCHANGED dxVerdict
    /\ UNCHANGED otherThanDx

\* The capture task receives one block.
DxCaptureBlock ==
    /\ dxPc = "capturing"
    /\ \E block \in DxBlocks(Cardinality(dxCap.planned)) :
         LET next == CaptureBlock(dxCap, block)
         IN /\ SumSeq(next.blobs) <= MaxObservedBlobs
            /\ dxCap' = next
    /\ UNCHANGED <<dxPc, dxIn, dxVerdict>>
    /\ UNCHANGED otherThanDx

\* The runner calls evaluate.
DxEvaluate ==
    /\ dxPc = "capturing"
    /\ dxVerdict' = DaEvaluate(dxCap)
    /\ dxPc' = "evaluated"
    /\ UNCHANGED <<dxIn, dxCap>>
    /\ UNCHANGED otherThanDx

DxNext ==
    \/ DxStartCapture
    \/ DxCaptureBlock
    \/ DxEvaluate

\* ===================================================================
\* publish_blob (da/workload.rs)
\* ===================================================================

\* da/workload.rs: PUBLISH_RETRIES, PUBLISH_RETRY_DELAY (seconds).
PublishRetries == 5
PublishRetryDelay == 2

\* Errors an executor's publish endpoint may answer with.
PublishErrors == {"timeout", "rejected"}

NoErr == [executor |-> 0, attempt |-> 0, kind |-> "none"]

\* candidates.shuffle: any order of the executor clients.
Shuffles(n) == DistinctSeqs(1..n, n)

\* What publish_blob does when the run has no executors.
NoExecutors == "done"

\* The pause after a failed round: none after the last one.
PublishPauseAlways(attempt) == PublishRetryDelay

PublishPause(attempt) ==
    IF attempt < PublishRetries THEN PublishRetryDelay ELSE 0

\* "da workload requires at least one executor" and "da workload could not
\* publish blob".
NoExecutorsErr == [executor |-> 0, attempt |-> 0, kind |-> "noExecutors"]
CouldNotPublishErr == [executor |-> 0, attempt |-> 0, kind |-> "couldNotPublish"]

\* last_err.unwrap_or_else(..): the error returned when every round failed.
FinalError(last) == IF last = NoErr THEN CouldNotPublishErr ELSE last

PbInit ==
    /\ pbPc = "new"
    /\ pbExecutors = 0
    /\ pbAttempt = 0
    /\ pbOrder = <<>>
    /\ pbIdx = 0
    /\ pbSlept = 0
    /\ pbLastErr = NoErr
    /\ pbLog = <<>>
    /\ pbOut = [result |-> "none", blob |-> 0, err |-> NoErr]

\* publish_blob is called in a run with some number of executors.
PbCall ==
    /\ pbPc = "new"
    /\ \E n \in 0..MaxPublishExecutors :
         /\ pbExecutors' = n
         /\ IF n = 0
            THEN /\ pbPc' = NoExecutors
                 /\ pbOut' = [result |-> "err", blob |-> 0,
                              err |-> NoExecutorsErr]
            ELSE /\ pbPc' = "round"
                 /\ UNCHANGED pbOut
    /\ pbAttempt' = 1
    /\ UNCHANGED <<pbOrder, pbIdx, pbSlept, pbLastErr, pbLog>>
    /\ UNCHANGED otherThanPb

\* The top of the retry loop: shuffle the candidates.
PbShuffle ==
    /\ pbPc = "round"
    /\ \E order \in Shuffles(pbExecutors) : pbOrder' = order
    /\ pbIdx' = 1
    /\ pbPc' = "publish"
    /\ UNCHANGED <<pbExecutors, pbAttempt, pbSlept, pbLastErr, pbLog, pbOut>>
    /\ UNCHANGED otherThanPb

\* The current candidate accepts the blob: return Ok(blob_id).
PbPublishOk ==
    /\ pbPc = "publish"
    /\ pbIdx <= Len(pbOrder)
    /\ pbLog' = Append(pbLog, pbOrder[pbIdx])
    /\ pbOut' = [result |-> "ok", blob |-> pbOrder[pbIdx], err |-> NoErr]
    /\ pbPc' = "done"
    /\ UNCHANGED <<pbExecutors, pbAttempt, pbOrder, pbIdx, pbSlept, pbLastErr>>
    /\ UNCHANGED otherThanPb

\* The current candidate fails: remember the error, go to the next one.
PbPublishErr ==
    /\ pbPc = "publish"
    /\ pbIdx <= Len(pbOrder)
    /\ \E kind \in PublishErrors :
         pbLastErr' = [executor |-> pbOrder[pbIdx], attempt |-> pbAttempt,
                       kind |-> kind]
    /\ pbLog' = Append(pbLog, pbOrder[pbIdx])
    /\ pbIdx' = pbIdx + 1
    /\ UNCHANGED <<pbPc, pbExecutors, pbAttempt, pbOrder, pbSlept, pbOut>>
    /\ UNCHANGED otherThanPb

\* Every candidate of the round failed: sleep and start the next round, or
\* leave the loop after the last round and return the last error.
PbRoundEnd ==
    /\ pbPc = "publish"
    /\ pbIdx > Len(pbOrder)
    /\ pbSlept' = pbSlept + PublishPause(pbAttempt)
    /\ IF pbAttempt < PublishRetries
       THEN /\ pbAttempt' = pbAttempt + 1
            /\ pbPc' = "round"
            /\ pbLog' = <<>>
            /\ UNCHANGED pbOut
       ELSE /\ pbPc' = "done"
            /\ pbOut' = [result |-> "err", blob |-> 0,
                         err |-> FinalError(pbLastErr)]
            /\ UNCHANGED <<pbAttempt, pbLog>>
    /\ UNCHANGED <<pbExecutors, pbOrder, pbIdx, pbLastErr>>
    /\ UNCHANGED otherThanPb

PbNext ==
    \/ PbCall
    \/ PbShuffle
    \/ PbPublishOk
    \/ PbPublishErr
    \/ PbRoundEnd

\* ===================================================================
\* Attaching a chaos restart workload (builder/mod.rs, chaos.rs)
\* ===================================================================

\* ChaosBuilder::restart: the defaults, in seconds.
DefaultMinDelay == 10
DefaultMaxDelay == 30
DefaultTargetCooldown == 60

\* Durations a caller passes: 0..MaxBuilderDelay s and the defaults.
BuilderDelays ==
    0..MaxBuilderDelay \cup
    {DefaultMinDelay, DefaultMaxDelay, DefaultTargetCooldown}

RestartDefaults ==
    [min_delay |-> DefaultMinDelay, max_delay |-> DefaultMaxDelay,
     target_cooldown |-> DefaultTargetCooldown,
     include_validators |-> TRUE, include_executors |-> TRUE]

\* The asserts of the setters min_delay, max_delay and target_cooldown.
SetterAccepts(delay) == delay # 0

\* The asserts of ChaosRestartBuilder::apply.
ApplyAccepts(cfg) ==
    /\ cfg.min_delay <= cfg.max_delay
    /\ cfg.target_cooldown >= cfg.min_delay
    /\ cfg.include_validators \/ cfg.include_executors

\* RandomRestartWorkload::new: the fields as given.
RandomRestartWorkloadNew(mn, mx, cd, iv, ie) ==
    [min_delay |-> mn, max_delay |-> mx, target_cooldown |-> cd,
     include_validators |-> iv, include_executors |-> ie]

CbInit ==
    /\ cbPc = "scenario"
    /\ cbCfg = NoCfg
    /\ cbWorkloads = <<>>
    /\ cbVia = "none"

\* ChaosBuilder::restart on a builder with node control.
CbRestart ==
    /\ cbPc = "scenario"
    /\ cbWorkloads = <<>>
    /\ cbCfg' = RestartDefaults
    /\ cbPc' = "restart"
    /\ UNCHANGED <<cbWorkloads, cbVia>>
    /\ UNCHANGED otherThanCb

\* Outcome of a setter: the field is stored, or the assert panics.
CbSet(field, delay) ==
    /\ cbPc = "restart"
    /\ IF SetterAccepts(delay)
       THEN /\ cbCfg' = [cbCfg EXCEPT ![field] = delay]
            /\ UNCHANGED cbPc
       ELSE /\ cbPc' = "panicked"
            /\ UNCHANGED cbCfg
    /\ UNCHANGED <<cbWorkloads, cbVia>>
    /\ UNCHANGED otherThanCb

CbMinDelay == \E d \in BuilderDelays : CbSet("min_delay", d)

CbMaxDelay == \E d \in BuilderDelays : CbSet("max_delay", d)

CbTargetCooldown == \E d \in BuilderDelays : CbSet("target_cooldown", d)

\* include_validators / include_executors.
CbInclude ==
    /\ cbPc = "restart"
    /\ \E field \in {"include_validators", "include_executors"}, b \in BOOLEAN :
         cbCfg' = [cbCfg EXCEPT ![field] = b]
    /\ UNCHANGED <<cbPc, cbWorkloads, cbVia>>
    /\ UNCHANGED otherThanCb

\* ChaosRestartBuilder::apply: the asserts, then with_workload.
CbApply ==
    /\ cbPc = "restart"
    /\ IF ApplyAccepts(cbCfg)
       THEN /\ cbWorkloads' = Append(cbWorkloads,
                  RandomRestartWorkloadNew(cbCfg.min_delay, cbCfg.max_delay,
                      cbCfg.target_cooldown, cbCfg.include_validators,
                      cbCfg.include_executors))
            /\ cbPc' = "scenario"
            /\ cbVia' = "builder"
       ELSE /\ cbPc' = "panicked"
            /\ UNCHANGED <<cbWorkloads, cbVia>>
    /\ UNCHANGED cbCfg
    /\ UNCHANGED otherThanCb

\* Builder::with_workload(RandomRestartWorkload::new(..)): the workload is
\* constructed by the caller and attached as it is.
CbWithWorkload ==
    /\ cbPc = "scenario"
    /\ cbWorkloads = <<>>
    /\ \E mn \in BuilderDelays, mx \in BuilderDelays, cd \in BuilderDelays,
          iv \in BOOLEAN, ie \in BOOLEAN :
         cbWorkloads' = Append(cbWorkloads,
                               RandomRestartWorkloadNew(mn, mx, cd, iv, ie))
    /\ cbVia' = "direct"
    /\ UNCHANGED <<cbPc, cbCfg>>
    /\ UNCHANGED otherThanCb

CbNext ==
    \/ CbRestart
    \/ CbMinDelay
    \/ CbMaxDelay
    \/ CbTargetCooldown
    \/ CbInclude
    \/ CbApply
    \/ CbWithWorkload

\* ===================================================================
\* The DA workload's plan: Workload::start, per_channel_blob_target
\* ===================================================================

NoDwInput == [channel_rate |-> 0, headroom |-> 0, blob_rate |-> 0, blocks |-> 0]

\* Workload::with_rate and the run's expected block count
\* (expected_consensus_blocks may be 0 for a very short run).
DwInputs ==
    [channel_rate : 1..MaxPlanRate,
     headroom     : {0, DefaultHeadroomPercent},
     blob_rate    : {1, 2, U64Max},
     blocks       : 0..MaxPlanBlocks]

NoDwPlan == [channels |-> 0, expected |-> 0, per |-> 0]

\* `total_blobs + channel_count - 1`: the addition, evaluated first,
\* overflows u64.
TargetOverflows(total_blobs, channel_count) ==
    total_blobs + channel_count > U64Max

\* per_channel_blob_target, the arithmetic wrapping as in a release build.
PerChannelBlobTarget(total_blobs, channel_count) ==
    IF channel_count = 0
    THEN IF total_blobs > 1 THEN total_blobs ELSE 1
    ELSE LET per == WrappingSub(WrappingAdd(total_blobs, channel_count), 1)
                        \div channel_count
         IN IF per > 1 THEN per ELSE 1

\* Workload::start up to the try_join_all: the plan of the workload.
WorkloadPlan(in) ==
    LET channels == PlannedChannelCount(in.channel_rate, in.headroom)
        expected == PlannedBlobCount(in.blob_rate, in.blocks)
    IN [channels |-> channels,
        expected |-> expected,
        per      |-> PerChannelBlobTarget(expected,
                         IF channels > 1 THEN channels ELSE 1)]

DwInit ==
    /\ dwPc = "idle"
    /\ dwIn = NoDwInput
    /\ dwPlan = NoDwPlan
    /\ dwFlow = <<>>
    /\ dwPublished = <<>>

\* Workload::with_rate; the RunMetrics of the run.
DwConfigure ==
    /\ dwPc = "idle"
    /\ \E in \in DwInputs : dwIn' = in
    /\ dwPc' = "configured"
    /\ UNCHANGED <<dwPlan, dwFlow, dwPublished>>
    /\ UNCHANGED otherThanDw

\* Workload::start: derive the plan and start one flow per planned
\* channel.  When the addition in per_channel_blob_target overflows, a
\* build with overflow checks panics and a build without them wraps.
DwStart ==
    /\ dwPc = "configured"
    /\ LET plan == WorkloadPlan(dwIn)
           started ==
               /\ dwPc' = "running"
               /\ dwPlan' = plan
               /\ dwFlow' = [c \in 1..plan.channels |-> "running"]
               /\ dwPublished' = [c \in 1..plan.channels |-> 0]
       IN IF TargetOverflows(plan.expected, plan.channels)
          THEN \/ /\ dwPc' = "panicked"
                  /\ UNCHANGED <<dwPlan, dwFlow, dwPublished>>
               \/ started
          ELSE started
    /\ UNCHANGED dwIn
    /\ UNCHANGED otherThanDw

\* run_channel_flow, one turn of `for _ in 0..target_blobs`: publish_blob
\* and wait_for_blob succeed.
DwPublish ==
    /\ dwPc = "running"
    /\ \E c \in DOMAIN dwFlow :
        /\ dwFlow[c] = "running"
        /\ dwPublished[c] < dwPlan.per
        /\ dwPublished' = [dwPublished EXCEPT ![c] = @ + 1]
    /\ UNCHANGED <<dwPc, dwIn, dwPlan, dwFlow>>
    /\ UNCHANGED otherThanDw

\* run_channel_flow returns Ok once the loop has run target_blobs times.
DwFlowDone ==
    /\ dwPc = "running"
    /\ \E c \in DOMAIN dwFlow :
        /\ dwFlow[c] = "running"
        /\ dwPublished[c] = dwPlan.per
        /\ dwFlow' = [dwFlow EXCEPT ![c] = "done"]
    /\ UNCHANGED <<dwPc, dwIn, dwPlan, dwPublished>>
    /\ UNCHANGED otherThanDw

\* A step of a flow fails (`?`): try_join_all returns the first error and
\* start returns it.
DwFlowFail ==
    /\ dwPc = "running"
    /\ \E c \in DOMAIN dwFlow :
        /\ dwFlow[c] = "running"
        /\ dwFlow' = [dwFlow EXCEPT ![c] = "failed"]
    /\ dwPc' = "failed"
    /\ UNCHANGED <<dwIn, dwPlan, dwPublished>>
    /\ UNCHANGED otherThanDw

\* try_join_all resolves once every flow has returned Ok: start returns
\* Ok ("DA workload completed all channel flows").
DwComplete ==
    /\ dwPc = "running"
    /\ \A c \in DOMAIN dwFlow : dwFlow[c] = "done"
    /\ dwPc' = "completed"
    /\ UNCHANGED <<dwIn, dwPlan, dwFlow, dwPublished>>
    /\ UNCHANGED otherThanDw

DwNext ==
    \/ DwConfigure
    \/ DwStart
    \/ DwPublish
    \/ DwFlowDone
    \/ DwFlowFail
    \/ DwComplete

\* ===================================================================
\* The topology builder: TopologyConfig, TopologyBuilder::build
\* ===================================================================

NoTopoConfig == [n_validators |-> 0, n_executors |-> 0, n_participants |-> 0]
NoTopology == [validators |-> <<>>, executors |-> <<>>]

TopoValidatorCounts == 0..MaxTopoValidators
TopoExecutorCounts == 0..MaxTopoExecutors

\* TopologyConfig::empty: zero nodes, consensus parameters for one.
TopologyConfigEmpty ==
    [n_validators |-> 0, n_executors |-> 0, n_participants |-> 1]

\* TopologyConfig::two_validators.
TwoValidators ==
    [n_validators |-> 2, n_executors |-> 0, n_participants |-> 2]

\* TopologyConfig::validator_and_executor.
ValidatorAndExecutor ==
    [n_validators |-> 1, n_executors |-> 1, n_participants |-> 2]

\* TopologyConfig::with_node_numbers: assert!(participants > 0).
WithNodeNumbersAccepts(validators, executors) == validators + executors > 0

WithNodeNumbers(validators, executors) ==
    [n_validators |-> validators, n_executors |-> executors,
     n_participants |-> validators + executors]

\* TopologyBuilder::build: assert!(n_participants > 0).
BuildAccepts(cfg) == cfg.n_validators + cfg.n_executors > 0

\* The role of node i in build's loop over 0..n_participants.
RoleOf(cfg, i) == IF i < cfg.n_validators THEN "validator" ELSE "executor"

\* The descriptors build pushes for one role, in loop order.
Descriptors(cfg, role) ==
    LET n == cfg.n_validators + cfg.n_executors
        first == IF role = "validator" THEN 0 ELSE cfg.n_validators
        count == Cardinality({i \in 0..(n - 1) : RoleOf(cfg, i) = role})
    IN [k \in 1..count |->
            [role |-> role, index |-> k - 1, node |-> first + k - 1]]

\* TopologyBuilder::build.
Build(cfg) ==
    [validators |-> Descriptors(cfg, "validator"),
     executors  |-> Descriptors(cfg, "executor")]

\* compose: ensure_supported_topology.
EnsureSupportedTopology(topo) ==
    IF Len(topo.validators) = 0 THEN "rejected" ELSE "supported"

TbInit ==
    /\ tbPc = "none"
    /\ tbCfg = NoTopoConfig
    /\ tbTopo = NoTopology

\* TopologyBuilder::new over one of the configs without arguments.
TbNewPreset ==
    /\ tbPc = "none"
    /\ tbCfg' \in {TopologyConfigEmpty, TwoValidators, ValidatorAndExecutor}
    /\ tbPc' = "builder"
    /\ UNCHANGED tbTopo
    /\ UNCHANGED otherThanTb

\* TopologyBuilder::new(TopologyConfig::with_node_numbers(v, e)).
TbNewWithNodeNumbers ==
    /\ tbPc = "none"
    /\ \E v \in TopoValidatorCounts, e \in TopoExecutorCounts :
        IF WithNodeNumbersAccepts(v, e)
        THEN /\ tbCfg' = WithNodeNumbers(v, e)
             /\ tbPc' = "builder"
        ELSE /\ tbPc' = "panicked"
             /\ UNCHANGED tbCfg
    /\ UNCHANGED tbTopo
    /\ UNCHANGED otherThanTb

\* TopologyBuilder::with_validator_count.
TbWithValidatorCount ==
    /\ tbPc = "builder"
    /\ \E v \in TopoValidatorCounts :
        tbCfg' = [tbCfg EXCEPT !.n_validators = v]
    /\ UNCHANGED <<tbPc, tbTopo>>
    /\ UNCHANGED otherThanTb

\* TopologyBuilder::with_executor_count.
TbWithExecutorCount ==
    /\ tbPc = "builder"
    /\ \E x \in TopoExecutorCounts :
        tbCfg' = [tbCfg EXCEPT !.n_executors = x]
    /\ UNCHANGED <<tbPc, tbTopo>>
    /\ UNCHANGED otherThanTb

\* TopologyBuilder::with_node_counts.
TbWithNodeCounts ==
    /\ tbPc = "builder"
    /\ \E v \in TopoValidatorCounts, x \in TopoExecutorCounts :
        tbCfg' = [tbCfg EXCEPT !.n_validators = v, !.n_executors = x]
    /\ UNCHANGED <<tbPc, tbTopo>>
    /\ UNCHANGED otherThanTb

\* TopologyBuilder::build.
TbBuild ==
    /\ tbPc = "builder"
    /\ IF BuildAccepts(tbCfg)
       THEN /\ tbTopo' = Build(tbCfg)
            /\ tbPc' = "built"
       ELSE /\ tbPc' = "panicked"
            /\ UNCHANGED tbTopo
    /\ UNCHANGED tbCfg
    /\ UNCHANGED otherThanTb

\* The compose deployer checks the built topology before it starts.
TbEnsureSupported ==
    /\ tbPc = "built"
    /\ tbPc' = EnsureSupportedTopology(tbTopo)
    /\ UNCHANGED <<tbCfg, tbTopo>>
    /\ UNCHANGED otherThanTb

TbNext ==
    \/ TbNewPreset
    \/ TbNewWithNodeNumbers
    \/ TbWithValidatorCount
    \/ TbWithExecutorCount
    \/ TbWithNodeCounts
    \/ TbBuild
    \/ TbEnsureSupported

\* ===================================================================
\* Wallet accounts: WalletConfig::uniform, WalletAccount::deterministic
\* ===================================================================

SeedLen == 32
IndexLen == 8
ByteW == 119
ByteL == 108

\* u64::to_le_bytes on the first n bytes.
RECURSIVE ToLeBytes(_, _)
ToLeBytes(x, n) ==
    IF n = 0 THEN <<>> ELSE <<x % 256>> \o ToLeBytes(x \div 256, n - 1)

Zeros(n) == [i \in 1..n |-> 0]

\* BigUint::from_bytes_le.
RECURSIVE FromBytesLe(_)
FromBytesLe(bytes) ==
    IF bytes = <<>> THEN 0 ELSE Head(bytes) + 256 * FromBytesLe(Tail(bytes))

\* deterministic's seed: "wl", the index in little-endian bytes, zeros.
DeterministicSeed(index) ==
    <<ByteW, ByteL>> \o ToLeBytes(index, IndexLen)
        \o Zeros(SeedLen - 2 - IndexLen)

\* SecretKey::to_public_key, a function of the secret key alone.
ToPublicKey(secret_key) == <<"pk", secret_key>>

\* WalletAccount::new: assert!(value > 0).
AccountAccepts(value) == value > 0

DeterministicKeyedByValue(index, value) ==
    [label      |-> <<"wallet-user-", index>>,
     secret_key |-> FromBytesLe(DeterministicSeed(value)),
     value      |-> value]

\* WalletAccount::deterministic.
Deterministic(index, value) ==
    [label      |-> <<"wallet-user-", index>>,
     secret_key |-> FromBytesLe(DeterministicSeed(index)),
     value      |-> value]

\* WalletAccount::public_key.
PublicKeyOf(account) == ToPublicKey(account.secret_key)

\* uniform's asserts: a non-zero user count and a token per user.
UniformAccepts(total_funds, users) ==
    /\ users > 0
    /\ total_funds >= users

\* The amount of account idx: the base allocation, and one more token for
\* the first `remainder` accounts.
Amount(total_funds, users, idx) ==
    LET base_allocation == total_funds \div users
        remainder == total_funds % users
    IN IF idx < remainder THEN base_allocation + 1 ELSE base_allocation

\* WalletConfig::uniform.
Uniform(total_funds, users) ==
    [k \in 1..users |->
        Deterministic(k - 1, Amount(total_funds, users, k - 1))]

NoWalletArgs == [total_funds |-> 0, users |-> 0]

WlInit ==
    /\ wlPc = "none"
    /\ wlArgs = NoWalletArgs
    /\ wlWallet = <<>>
    /\ wlPrev = <<>>

\* A call of WalletConfig::uniform that passes the asserts.
WlUniform ==
    /\ wlPc \in {"none", "built"}
    /\ \E total \in 0..MaxFunds, users \in 1..MaxUsers :
        /\ UniformAccepts(total, users)
        /\ \A k \in 0..(users - 1) : AccountAccepts(Amount(total, users, k))
        /\ wlArgs' = [total_funds |-> total, users |-> users]
        /\ wlWallet' = Uniform(total, users)
    /\ wlPrev' = wlWallet
    /\ wlPc' = "built"
    /\ UNCHANGED otherThanWl

\* A call of WalletConfig::uniform that fails an assert.
WlUniformPanics ==
    /\ wlPc \in {"none", "built"}
    /\ \E total \in 0..MaxFunds, users \in 1..MaxUsers :
        /\ \/ ~UniformAccepts(total, users)
           \/ \E k \in 0..(users - 1) :
                  ~AccountAccepts(Amount(total, users, k))
        /\ wlArgs' = [total_funds |-> total, users |-> users]
    /\ wlPc' = "panicked"
    /\ UNCHANGED <<wlWallet, wlPrev>>
    /\ UNCHANGED otherThanWl

WlNext ==
    \/ WlUniform
    \/ WlUniformPanics

\* ===================================================================
\* The capture task of the transaction-inclusion expectation
\* ===================================================================

\* Public keys of note outputs: two wallet keys and a key of no wallet
\* account.
OutputKeys == {"a", "b", "other"}

\* tracked_accounts, the keys of the first `planned` wallet accounts.
TrackedSets == {{"a"}, {"a", "b"}}

\* ledger_tx.outputs of a transaction: no, one or two notes.
TxOutputs ==
    {<<>>} \cup {<<k>> : k \in OutputKeys}
        \cup {<<k1, k2>> : k1 \in {"a", "other"}, k2 \in OutputKeys}

\* Blocks the feed can deliver: whether the parent is the genesis id, and
\* up to MaxBlockTxs transactions.
RECURSIVE SeqsUpTo(_, _)
SeqsUpTo(S, n) ==
    IF n = 0 THEN {<<>>}
    ELSE LET shorter == SeqsUpTo(S, n - 1)
         IN shorter \cup {Append(q, x) : q \in shorter, x \in S}

CaptureBlocks ==
    [parent_is_genesis : BOOLEAN, transactions : SeqsUpTo(TxOutputs, MaxBlockTxs)]

\* Mutant of NoteLoop: the loop over the outputs has no break.
RECURSIVE NoteLoopNoBreak(_, _)
NoteLoopNoBreak(outputs, tracked) ==
    IF outputs = <<>> THEN 0
    ELSE (IF Head(outputs) \in tracked THEN 1 ELSE 0)
            + NoteLoopNoBreak(Tail(outputs), tracked)

\* `for note in outputs`: fetch_add(1) at the first tracked key, then break.
RECURSIVE NoteLoop(_, _)
NoteLoop(outputs, tracked) ==
    IF outputs = <<>> THEN 0
    ELSE IF Head(outputs) \in tracked THEN 1
    ELSE NoteLoop(Tail(outputs), tracked)

\* `for tx in record.block.transactions()`.
RECURSIVE TxLoop(_, _)
TxLoop(txs, tracked) ==
    IF txs = <<>> THEN 0
    ELSE NoteLoop(Head(txs), tracked) + TxLoop(Tail(txs), tracked)

\* The Ok(record) arm: what one block adds to observed.
BlockAdds(block, tracked) ==
    IF block.parent_is_genesis THEN 0
    ELSE TxLoop(block.transactions, tracked)

\* What a block holds, counted apart from the task: outputs paying a
\* tracked key, and transactions with at least one such output.
TrackedOutputsIn(block, tracked) ==
    IF block.parent_is_genesis THEN 0
    ELSE LET txs == block.transactions
             notes == UNION {{<<i, j>> : j \in DOMAIN txs[i]} : i \in DOMAIN txs}
         IN Cardinality({n \in notes : txs[n[1]][n[2]] \in tracked})

TrackedTxsIn(block, tracked) ==
    IF block.parent_is_genesis THEN 0
    ELSE LET txs == block.transactions
         IN Cardinality({i \in DOMAIN txs :
                            \E j \in DOMAIN txs[i] : txs[i][j] \in tracked})

TcInit ==
    /\ tcPc = "idle"
    /\ tcTracked = {}
    /\ tcObserved = 0
    /\ tcReceived = 0
    /\ tcLagged = 0
    /\ tcOutputs = 0
    /\ tcTxs = 0

\* start_capture: the tracked keys, observed = 0, the task is spawned.
TcSpawn ==
    /\ tcPc = "idle"
    /\ tcTracked' \in TrackedSets
    /\ tcPc' = "capturing"
    /\ UNCHANGED <<tcObserved, tcReceived, tcLagged, tcOutputs, tcTxs>>
    /\ UNCHANGED otherThanTc

\* receiver.recv() returns Ok(record).
TcRecvBlock ==
    /\ tcPc = "capturing"
    /\ tcReceived < MaxCaptureBlocks
    /\ \E block \in CaptureBlocks :
        /\ tcObserved' = tcObserved + BlockAdds(block, tcTracked)
        /\ tcOutputs' = tcOutputs + TrackedOutputsIn(block, tcTracked)
        /\ tcTxs' = tcTxs + TrackedTxsIn(block, tcTracked)
    /\ tcReceived' = tcReceived + 1
    /\ UNCHANGED <<tcPc, tcTracked, tcLagged>>
    /\ UNCHANGED otherThanTc

\* receiver.recv() returns Err(Lagged): logged, the loop goes on.
TcRecvLagged ==
    /\ tcPc = "capturing"
    /\ tcLagged < 1
    /\ tcLagged' = tcLagged + 1
    /\ UNCHANGED <<tcPc, tcTracked, tcObserved, tcReceived, tcOutputs, tcTxs>>
    /\ UNCHANGED otherThanTc

\* receiver.recv() returns Err(Closed): the task leaves its loop.
TcRecvClosed ==
    /\ tcPc = "capturing"
    /\ tcPc' = "exited"
    /\ UNCHANGED <<tcTracked, tcObserved, tcReceived, tcLagged, tcOutputs, tcTxs>>
    /\ UNCHANGED otherThanTc

TcNext ==
    \/ TcSpawn
    \/ TcRecvBlock
    \/ TcRecvLagged
    \/ TcRecvClosed

\* ===================================================================
\* The cfgsync repository and the server's configuration handlers
\* ===================================================================

\* Hosts (the keys of waiting_hosts).
CfHosts == 1..MaxHosts

NoConfig == [host |-> 0, hosts |-> {}]

NoRelease == {0}

\* create_node_configs: one configuration per host, computed from the whole
\* host list (peers, genesis declarations and ports come from all hosts).
CreateNodeConfigs(hosts) == [h \in hosts |-> [host |-> h, hosts |-> hosts]]

\* create_node_configs indexes the per-participant configurations, built for
\* n_participants = n_hosts, by the position of each host: it panics when
\* more hosts than that are given.
CreatePanics(hosts) == Cardinality(hosts) > NHosts

\* Mutant of HostsAnnounced: one host is enough.
HostsAnnouncedAny(waiting) == Cardinality(DOMAIN waiting) >= 1

\* wait_for_hosts: waiting_hosts.len() >= n_hosts.
HostsAnnounced(waiting) == Cardinality(DOMAIN waiting) >= NHosts

\* HashMap::drain followed by sender.send(response(host)) for each entry.
Drained(reqs, waiting, st, configs) ==
    [i \in 1..Len(reqs) |->
        IF \E h \in DOMAIN waiting : waiting[h] = i
        THEN [reqs[i] EXCEPT !.st = st,
                             !.cfg = IF st = "config" THEN configs[reqs[i].host]
                                     ELSE NoConfig]
        ELSE reqs[i]]

NoWaiting == [h \in {} |-> 0]

CfInit ==
    /\ cfPc = "waiting"
    /\ cfWaiting = NoWaiting
    /\ cfPoisoned = FALSE
    /\ cfElapsed = 0
    /\ cfReq = <<>>
    /\ cfReleased = NoRelease

\* validator_config / executor_config up to reply_rx.await: the handler
\* registers its sender. HashMap::insert drops the sender an earlier request
\* of the same host left, whose reply_rx.await then fails and is answered
\* with INTERNAL_SERVER_ERROR. Once the mutex is poisoned lock().unwrap()
\* panics in the handler.
CfRegister(h) ==
    /\ Len(cfReq) < MaxRequests
    /\ LET i == Len(cfReq) + 1
       IN IF cfPoisoned
          THEN /\ cfReq' = Append(cfReq, [host |-> h, st |-> "handlerPanic", cfg |-> NoConfig])
               /\ UNCHANGED cfWaiting
          ELSE /\ cfReq' = Append(
                     IF h \in DOMAIN cfWaiting
                     THEN [cfReq EXCEPT ![cfWaiting[h]].st = "recvError"]
                     ELSE cfReq,
                     [host |-> h, st |-> "waiting", cfg |-> NoConfig])
               /\ cfWaiting' = [x \in DOMAIN cfWaiting \cup {h} |->
                                   IF x = h THEN i ELSE cfWaiting[x]]
    /\ UNCHANGED <<cfPc, cfPoisoned, cfElapsed, cfReleased>>
    /\ UNCHANGED otherThanCf

\* wait_for_hosts finds enough hosts and returns; timeout yields Ok(()).
CfHostsReady ==
    /\ cfPc = "waiting"
    /\ HostsAnnounced(cfWaiting)
    /\ cfPc' = "releasing"
    /\ UNCHANGED <<cfWaiting, cfPoisoned, cfElapsed, cfReq, cfReleased>>
    /\ UNCHANGED otherThanCf

\* wait_for_hosts finds too few hosts and sleeps one second.
CfSleep ==
    /\ cfPc = "waiting"
    /\ ~HostsAnnounced(cfWaiting)
    /\ cfElapsed < TimeoutSecs
    /\ cfElapsed' = cfElapsed + 1
    /\ UNCHANGED <<cfPc, cfWaiting, cfPoisoned, cfReq, cfReleased>>
    /\ UNCHANGED otherThanCf

\* The deadline passes while wait_for_hosts is pending: every waiting
\* sender is drained and sent Timeout.
CfTimeout ==
    /\ cfPc = "waiting"
    /\ ~HostsAnnounced(cfWaiting)
    /\ cfElapsed >= TimeoutSecs
    /\ cfReq' = Drained(cfReq, cfWaiting, "timeout", NoWaiting)
    /\ cfWaiting' = NoWaiting
    /\ cfPc' = "done"
    /\ UNCHANGED <<cfPoisoned, cfElapsed, cfReleased>>
    /\ UNCHANGED otherThanCf

\* run after Ok(()): lock, collect the keys, create_node_configs, drain and
\* send each host its configuration. A panic in create_node_configs unwinds
\* with the lock held: nothing is sent, the senders stay in the map and the
\* mutex is poisoned.
CfRelease ==
    /\ cfPc = "releasing"
    /\ LET hosts == DOMAIN cfWaiting
       IN IF CreatePanics(hosts)
          THEN /\ cfPc' = "panicked"
               /\ cfPoisoned' = TRUE
               /\ UNCHANGED <<cfWaiting, cfReq, cfReleased>>
          ELSE /\ cfReq' = Drained(cfReq, cfWaiting, "config", CreateNodeConfigs(hosts))
               /\ cfWaiting' = NoWaiting
               /\ cfReleased' = hosts
               /\ cfPc' = "done"
               /\ UNCHANGED cfPoisoned
    /\ UNCHANGED cfElapsed
    /\ UNCHANGED otherThanCf

CfRunStep ==
    \/ CfHostsReady
    \/ CfSleep
    \/ CfTimeout
    \/ CfRelease

CfNext ==
    \/ \E h \in CfHosts : CfRegister(h)
    \/ CfHostsReady
    \/ CfSleep
    \/ CfTimeout
    \/ CfRelease

\* ===================================================================
\* start_capture called more than once
\* ===================================================================

Expectations == {"tx", "da"}

\* Wallets of zero to two accounts, all with genesis outputs; no user limit
\* or a limit of one; a run of no or MaxRunSecs seconds at rate MaxRate.
RcTxInputs ==
    [wallet : {SubSeq(<<1, 2>>, 1, n) : n \in 0..2}, genesis : {Keys},
     user_limit : {NoLimit, 1}, run_secs : {0, MaxRunSecs}, hint : {NoHint},
     rate : {MaxRate}]

RcDaInputs ==
    [channel_rate : {1, MaxChannelRate}, headroom : {0},
     blob_rate : {DefaultBlobRate}, blocks : {1}]

\* Mutant of AlreadyCapturing: the guard at the top of start_capture is gone.
AlreadyCapturingNever(state) == FALSE

\* capture_state.is_some().
AlreadyCapturing(state) == state.captured

\* TxInclusionExpectation::start_capture past its guard: the error returns,
\* or the new capture state.
TxCaptureState(in) ==
    IF in.wallet = <<>> THEN [ok |-> FALSE, state |-> NoCapture]
    ELSE LET available == LimitedUserCount(in.user_limit, Len(in.wallet))
             planned == SubmissionPlan(in, available)
         IN IF planned = 0 THEN [ok |-> FALSE, state |-> NoCapture]
            ELSE [ok |-> TRUE,
                  state |-> [captured |-> TRUE, expected |-> planned, observed |-> 0]]

\* DaWorkloadExpectation::start_capture past its guard.
DaCaptureState(in) ==
    LET count == PlannedChannelCount(in.channel_rate, in.headroom)
    IN [captured |-> TRUE,
        planned |-> PlannedIds(count),
        inscriptions |-> {},
        blobs |-> [c \in PlannedIds(count) |-> 0],
        expected_total_blobs |-> PlannedBlobCount(in.blob_rate, in.blocks)]

RcInit ==
    /\ rcPc = "new"
    /\ rcTxIn = NoTxInput
    /\ rcDaIn = NoDxInput
    /\ rcTx = NoCapture
    /\ rcDa = NoDxCapture
    /\ rcSubs = 0
    /\ rcTasks = [x \in Expectations |-> 0]
    /\ rcCalls = [x \in Expectations |-> 0]
    /\ rcLast = [x \in Expectations |-> "none"]
    /\ rcSeen = [x \in Expectations |-> 0]

\* The scenario and the two expectations are built.
RcConfigure ==
    /\ rcPc = "new"
    /\ \E tin \in RcTxInputs, din \in RcDaInputs :
         /\ rcTxIn' = tin
         /\ rcDaIn' = din
    /\ rcPc' = "configured"
    /\ UNCHANGED <<rcTx, rcDa, rcSubs, rcTasks, rcCalls, rcLast, rcSeen>>
    /\ UNCHANGED otherThanRc

\* TxInclusionExpectation::start_capture.
RcTxStartCapture ==
    /\ rcPc = "configured"
    /\ rcCalls["tx"] < MaxCaptureCalls
    /\ rcCalls' = [rcCalls EXCEPT !["tx"] = @ + 1]
    /\ IF AlreadyCapturing(rcTx)
       THEN /\ rcLast' = [rcLast EXCEPT !["tx"] = "ok"]
            /\ UNCHANGED <<rcTx, rcSubs, rcTasks>>
       ELSE LET r == TxCaptureState(rcTxIn)
            IN IF r.ok
               THEN /\ rcSubs' = rcSubs + 1
                    /\ rcTasks' = [rcTasks EXCEPT !["tx"] = @ + 1]
                    /\ rcTx' = r.state
                    /\ rcLast' = [rcLast EXCEPT !["tx"] = "ok"]
               ELSE /\ rcLast' = [rcLast EXCEPT !["tx"] = "err"]
                    /\ UNCHANGED <<rcTx, rcSubs, rcTasks>>
    /\ UNCHANGED <<rcPc, rcTxIn, rcDaIn, rcDa, rcSeen>>
    /\ UNCHANGED otherThanRc

\* DaWorkloadExpectation::start_capture.
RcDaStartCapture ==
    /\ rcPc = "configured"
    /\ rcCalls["da"] < MaxCaptureCalls
    /\ rcCalls' = [rcCalls EXCEPT !["da"] = @ + 1]
    /\ rcLast' = [rcLast EXCEPT !["da"] = "ok"]
    /\ IF AlreadyCapturing(rcDa)
       THEN UNCHANGED <<rcDa, rcSubs, rcTasks>>
       ELSE /\ rcSubs' = rcSubs + 1
            /\ rcTasks' = [rcTasks EXCEPT !["da"] = @ + 1]
            /\ rcDa' = DaCaptureState(rcDaIn)
    /\ UNCHANGED <<rcPc, rcTxIn, rcDaIn, rcTx, rcSeen>>
    /\ UNCHANGED otherThanRc

\* The feed broadcasts a block off genesis with one transaction paying a
\* tracked key and one blob on planned channel 1. The task of the current
\* capture state adds to that state's counters; a task of a replaced state
\* adds to counters nothing reads any more.
RcBroadcast ==
    /\ rcPc = "configured"
    /\ rcSeen["tx"] < MaxBroadcast /\ rcSeen["da"] < MaxBroadcast
    /\ rcTasks["tx"] + rcTasks["da"] >= 1
    /\ rcTx' = IF rcTasks["tx"] >= 1 THEN [rcTx EXCEPT !.observed = @ + 1] ELSE rcTx
    /\ rcDa' = IF rcTasks["da"] >= 1 THEN CaptureBlock(rcDa, <<<<"blob", 1>>>>) ELSE rcDa
    /\ rcSeen' = [x \in Expectations |-> IF rcTasks[x] >= 1 THEN rcSeen[x] + 1 ELSE rcSeen[x]]
    /\ UNCHANGED <<rcPc, rcTxIn, rcDaIn, rcSubs, rcTasks, rcCalls, rcLast>>
    /\ UNCHANGED otherThanRc

RcNext ==
    \/ RcConfigure
    \/ RcTxStartCapture
    \/ RcDaStartCapture
    \/ RcBroadcast

Init ==
    /\ FeedInit /\ DaInit /\ ChaosInit /\ RunnerInit /\ DeployInit
    /\ LivenessInit /\ TxInit /\ DxInit /\ PbInit /\ CbInit /\ DwInit
    /\ TbInit /\ WlInit /\ TcInit /\ CfInit /\ RcInit

Spec == Init /\ [][FeedNext]_vars

SpecDa == Init /\ [][DaNext]_vars

SpecChaos == Init /\ [][ChaosNext]_vars

SpecRunner == Init /\ [][RunnerNext]_vars

SpecDeploy == Init /\ [][DeployNext]_vars

SpecLiveness == Init /\ [][LivenessNext]_vars

SpecTx == Init /\ [][TxNext]_vars

SpecDaExpectation == Init /\ [][DxNext]_vars

SpecPublish == Init /\ [][PbNext]_vars

SpecChaosBuilder == Init /\ [][CbNext]_vars

SpecDaPlan == Init /\ [][DwNext]_vars

SpecTopology == Init /\ [][TbNext]_vars

SpecWallet == Init /\ [][WlNext]_vars

SpecTxCapture == Init /\ [][TcNext]_vars

SpecCfgsync == Init /\ [][CfNext]_vars

\* The run task is spawned on the runtime and its timers fire: its steps are
\* taken whenever they stay enabled. Requests arrive or not as the hosts
\* please.
SpecCfgsyncLive == Init /\ [][CfNext]_vars /\ WF_vars(CfRunStep)

SpecStartCapture == Init /\ [][RcNext]_vars

\* ===================================================================
\* Properties of the block feed
\* ===================================================================

Range(f) == {f[i] : i \in DOMAIN f}

AncestorsOrSelf(b) == Ancestors(b) \cup {b}

\* Subscriber s has received b or still has it waiting in the channel.
Observable(s, b) ==
    \/ b \in rx[s].got
    \/ \E k \in (rx[s].next + 1)..Len(sent) : sent[k] = b

\* Subscriber s was created right after spawn_block_feed returned and has
\* never fallen more than the channel capacity behind.
EarlyAndKeptUp(s) ==
    rx[s].active /\ rx[s].early /\ ~rx[s].lagged /\ rx[s].next >= Oldest

\* The last catch_up of the spawned scanner succeeded and none is in progress.
CaughtUp == spawned /\ lastResult = "ok" /\ scPc \in {"poll", "sleep"}

\* C1: within one catch-up batch records are broadcast ancestor first: if A
\* is an ancestor of B and both are emitted by the same catch_up, A is
\* ingested before B.
C1_AncestorFirst ==
    \A i, j \in 1..Len(batch) : IsAncestor(batch[i], batch[j]) => i < j

\* C1 witness: a batch of the running scanner holding a block and its child.
C1_Witness ==
    spawned /\ Len(batch) >= 2 /\ IsAncestor(batch[1], batch[2])

\* C2 as stated: a subscriber created right after spawn_block_feed returned
\* observes every block the feed ingested whose height is at least the
\* height of the tip read at spawn.
C2_Original ==
    \A s \in Subs :
        (rx[s].active /\ rx[s].early) =>
            \A i \in 1..Len(ingested) :
                Height(ingested[i]) >= Height(tipAtSpawn) => Observable(s, ingested[i])

\* C2 amended: a subscriber created right after spawn_block_feed returned
\* that never lags observes every block ingested after spawn_block_feed
\* returned, and so, once a later catch_up has succeeded, every block on the
\* polled tip's chain that is higher than the tip read at spawn. (The blocks
\* ingested inside spawn_block_feed, that tip included, are not delivered.)
C2_Amended ==
    \A s \in Subs :
        EarlyAndKeptUp(s) =>
            /\ \A i \in (spawnLen + 1)..Len(ingested) : Observable(s, ingested[i])
            /\ CaughtUp =>
                  \A b \in AncestorsOrSelf(lastTip) :
                      Height(b) > Height(tipAtSpawn) => Observable(s, b)

\* C2 witness: an early subscriber that has received a block above the spawn
\* tip while the spawn tip itself, ingested at spawn, never reached it.
C2_Witness ==
    \E s \in Subs :
        /\ EarlyAndKeptUp(s)
        /\ CaughtUp
        /\ tipAtSpawn # Genesis
        /\ tipAtSpawn \in Range(ingested)
        /\ ~Observable(s, tipAtSpawn)
        /\ \E b \in rx[s].got : Height(b) > Height(tipAtSpawn)

\* C3: once a catch_up of the spawned scanner has succeeded for a tip, every
\* block on that tip's chain above genesis has been broadcast (ingested),
\* whatever number of blocks the node confirmed between two polls.
C3_Covered ==
    CaughtUp => \A b \in AncestorsOrSelf(lastTip) \ {Genesis} : b \in Range(ingested)

\* C3 witness: a successful catch_up of the running scanner that filled a
\* gap of two blocks confirmed after spawn_block_feed returned.
C3_Witness ==
    /\ CaughtUp
    /\ scPc = "sleep"
    /\ Len(batch) >= 2
    /\ Len(ingested) >= spawnLen + 2
    /\ batch[Len(batch)] = lastTip

C5_SurvivesErrors ==
    /\ [](spawned =>
            /\ scPc \in {"poll", "fetch", "emit", "sleep", "aborted"}
            /\ (scPc = "aborted" => cleaned))
    /\ [][(spawned /\ scPc \in {"poll", "fetch"}
              /\ scPc' \notin {"poll", "fetch", "emit", "aborted"})
            => scPc' = "sleep"]_vars

\* C5 witness: the running scanner fetching again after a catch_up of the
\* run loop failed on a missing block.
C5_Witness ==
    spawned /\ ~cleaned /\ lastResult = "missing" /\ scPc = "fetch"

\* ===================================================================
\* Properties of the DA channel flows
\* ===================================================================

\* Some broadcast block holds an operation with this MsgId.
InSomeBlock(id) ==
    \E k \in 1..Len(daSent) : \E op \in daSent[k] : MsgIdOf(op) = id

\* C7: each DA channel flow is strictly sequential: the inscription is
\* submitted first; every blob is published right after an observation and
\* names the observed message as its parent; every observation is of the
\* operation the flow submitted or published last, found in a broadcast block.
C7_Sequential ==
    \A c \in DaChannels :
        LET ev == daEvents[c]
        IN \A i \in 1..Len(ev) :
              /\ (ev[i].ev = "submit") <=> (i = 1)
              /\ ev[i].ev = "publish" =>
                    /\ ev[i - 1].ev = "observed"
                    /\ ev[i].parent = ev[i - 1].id
              /\ ev[i].ev = "observed" =>
                    /\ ev[i - 1].ev \in {"submit", "publish"}
                    /\ ev[i].id = ev[i - 1].id
                    /\ InSomeBlock(ev[i].id)

\* C7 witness: a flow that ran to its end (inscription, then TargetBlobs
\* rounds of publish and observation) while another flow was under way.
C7_Witness ==
    \E c, d \in DaChannels :
        /\ c # d
        /\ daPc[c] = "done"
        /\ Len(daEvents[c]) = 2 * TargetBlobs + 2
        /\ daEvents[d] # <<>>

\* C8: a turn of wait_for_channel_op that gets Lagged leaves the flow
\* waiting; the wait returns Ok only with the MsgId of a matching operation
\* of the block just received; it returns an error only on Closed.
C8_WaitForChannelOp ==
    [][\A c \in DaChannels :
          daPc[c] \in {"waitIns", "waitBlob"} =>
            /\ (DaRecvOutcome(c) = "lagged" /\ daRx'[c] # daRx[c]) =>
                  (daPc'[c] = daPc[c] /\ daParent'[c] = daParent[c])
            /\ daPc'[c] = "failed" => DaRecvOutcome(c) = "closed"
            /\ daPc'[c] \in {"publish", "done"} =>
                  /\ DaRecvOutcome(c) = "ok"
                  /\ \E op \in daSent[daRx[c].next + 1] :
                        Matches(c, op) /\ daParent'[c] = MsgIdOf(op)]_vars

\* C8 witness: a flow whose receiver lagged while it waited and that went on
\* to observe its operation.
C8_Witness ==
    \E c \in DaChannels : daRx[c].lagged /\ daBlobs[c] >= 1

\* ===================================================================
\* Properties of the chaos restart workload
\* ===================================================================

\* C9 as stated: pick_target sleeps only if every target is cooling down;
\* with a ready target it picks without waiting.
C9_SleepsOnlyIfAllCooling ==
    chPc = "pickSleep" => \A t \in ChTargets : chCooldowns[t] > chNow

\* C10: a target is restarted again only when target_cooldown has elapsed
\* since its previous restart returned.
C10_CooldownRespected ==
    (chPc = "restart" /\ chLast[chTarget] >= 0) =>
        chNow >= chLast[chTarget] + chCfg.target_cooldown

\* C10 witness: a target restarted a second time, under a cooldown of at
\* least two ticks, in a run with more than one target.
C10_Witness ==
    /\ chPc = "restart"
    /\ chLast[chTarget] >= 0
    /\ chCfg.target_cooldown >= 2
    /\ Cardinality(ChTargets) >= 2

\* C11: with exactly one validator in the topology, restart_validator is
\* never invoked: no validator is the target of a restart, under way or past.
C11_SingleValidatorNeverRestarted ==
    (chPc # "new" /\ chTopo.validators = 1) =>
        /\ ~(chPc = "restart" /\ chTarget[1] = "validator")
        /\ \A t \in AllTargets : t[1] = "validator" => chLast[t] = -1

\* C11 witness: one validator, validators included, and the workload is
\* restarting an executor after an earlier restart.
C11_Witness ==
    /\ chTopo.validators = 1
    /\ chCfg.include_validators
    /\ chPc = "restart"
    /\ chTarget[1] = "executor"
    /\ chLast[chTarget] >= 0

\* ===================================================================
\* Properties of the runner
\* ===================================================================

Polled(w) == rnWl[w] \in {"running", "done", "failed"}

\* C6: when any workload's start has been polled, or has submitted anything,
\* start_capture has returned for every expectation of the run and every
\* capturing expectation holds its receiver on the block feed.
C6_CaptureBeforeWorkloads ==
    (\E w \in DOMAIN rnWl : Polled(w) \/ w \in rnSubmitted) =>
        \A i \in 1..Len(rnExpect) :
            /\ rnExpect[i] \in rnStarted
            /\ rnExpect[i] \in {"tx_inclusion", "da_workload_inclusions"} =>
                  rnExpect[i] \in rnReceivers

\* C6 witness: a run with a scenario-level and two workload-contributed
\* expectations in which a workload has submitted.
C6_Witness ==
    /\ Len(rnExpect) = 3
    /\ rnSubmitted # {}
    /\ \E w \in DOMAIN rnWl : rnWl[w] = "spawned"

\* ===================================================================
\* Properties of the deployers
\* ===================================================================

\* C12 as stated: a scenario with a chaos-restart workload whose backend
\* supplies no node-control handle never gets past deploy, and the workload's
\* start never finds the handle missing at run time.
C12_FailsAtDeployTime ==
    (dpIn.chaos /\ dpNodeControl = "none") =>
        /\ dpPc \notin {"ready", "finished"}
        /\ ~dpRunErr

\* C13 as stated: when deploy has returned an error after the backend
\* environment was brought up, the environment's cleanup has run.
C13_TeardownBeforeError ==
    (dpPc = "returnedErr" /\ dpUp) => dpW.cleanups >= 1

\* C14: with Docker unavailable the compose deploy stops in
\* validate_environment with DockerUnavailable, and no workspace, container,
\* stack, node client, block feed or node-control handle has been created.
C14_DockerUnavailable ==
    (dpIn.backend = "compose" /\ ~dpIn.docker) =>
        /\ dpW = NoWorld
        /\ dpNodeControl = "unset"
        /\ dpPc \in {"validate", "returnedErr"}
        /\ dpPc = "returnedErr" => dpErr = "DockerUnavailable"

\* C14 witness: deploy has returned DockerUnavailable.
C14_Witness ==
    /\ dpIn.backend = "compose"
    /\ ~dpIn.docker
    /\ dpPc = "returnedErr"
    /\ dpErr = "DockerUnavailable"

\* Attempts to start the block feed that have failed so far.
FailedFeedAttempts ==
    IF dpPc \in {"ready", "finished"} THEN dpFeedTry - 1 ELSE dpFeedTry

\* C15 as stated: every deployer makes up to 5 attempts, sleeps 2 s after
\* each failed attempt but the fifth, and fails only after the fifth.
C15_Original ==
    /\ dpFeedTry <= 5
    /\ dpErr = "BlockFeed" => dpFeedTry = 5
    /\ dpSlept = 2 * (IF FailedFeedAttempts < 4 THEN FailedFeedAttempts ELSE 4)

\* C15 amended: the compose deployer makes up to 5 attempts, sleeps 1 s after
\* each failed attempt but the fifth, and fails with the last error only
\* after the fifth; the k8s and local deployers make a single attempt.
C15_Amended ==
    IF dpIn.backend = "compose"
      THEN /\ dpFeedTry <= 5
           /\ dpErr = "BlockFeed" => dpFeedTry = 5
           /\ dpSlept = 1 * (IF FailedFeedAttempts < 4 THEN FailedFeedAttempts ELSE 4)
      ELSE /\ dpFeedTry <= 1
           /\ dpErr = "BlockFeed" => dpFeedTry = 1
           /\ dpSlept = 0

\* C15 witness: the compose deploy failed on the block feed after five
\* attempts and four pauses.
C15_Witness ==
    /\ dpIn.backend = "compose"
    /\ dpErr = "BlockFeed"
    /\ dpFeedTry = 5
    /\ dpSlept = 4

\* C16 as stated: with a preserve variable set, the compose cleanup guard
\* runs no docker compose down, does not remove the cfgsync container and
\* keeps the workspace.
C16_PreserveSkipsTeardown ==
    (dpIn.backend = "compose" /\ dpIn.preserve /\ dpW.cleanups >= 1) =>
        /\ dpW.down = 0
        /\ dpW.rm = 0
        /\ dpW.cfg = "running"
        /\ dpW.workspace = "kept"

\* C17 as stated: however often cleanup is triggered, docker compose down and
\* the removal of a cfgsync container run at most once each, and no trigger
\* panics.
C17_DoubleCleanupSafe ==
    /\ dpW.down <= 1
    /\ dpW.rm <= 1
    /\ ~dpW.panic

\* ===================================================================
\* Properties of the consensus-liveness expectation
\* ===================================================================

\* report reached the lag allowance: there were samples.
Reported == lvPc = "reported" /\ lvSamples # <<>>

\* C18 as stated: for every target and every configured lag allowance the
\* effective lag allowance is computed without failure and lies between the
\* configured allowance and 5, being target / 10 when that is in between.
C18_LagAllowanceTotal ==
    Reported =>
        /\ lvOut.result # "panic"
        /\ lvOut.lag >= lvLag
        /\ lvOut.lag <= 5
        /\ (lvOut.target \div 10 >= lvLag /\ lvOut.target \div 10 <= 5) =>
              lvOut.lag = lvOut.target \div 10

TxPlanned == txPc = "running" \/ (txPc = "done" /\ txResult \notin {"initErr", "captureErr"})

\* The number of transactions the run planned: the length of the plan
\* Submission::new built, i.e. what was sent plus what is still queued.
\* A failed submission has been popped without being sent.
TxPlannedCount ==
    Len(txSent) + Len(txPlan) + (IF txResult = "txErr" THEN 1 ELSE 0)

\* floor(run_duration / block_interval * rate_per_block), capped.
TxFormula ==
    MinNat((txIn.run_secs * txIn.rate) \div BlockSecs(txIn), Len(txAccounts))

IsPrefix(p, q) == Len(p) <= Len(q) /\ SubSeq(q, 1, Len(p)) = p

\* C22: the accounts submitted are at most `planned`, pairwise distinct,
\* each with a genesis output, and they are a prefix of the matched
\* accounts in the configured order.
C22_DistinctFifo ==
    TxPlanned =>
        /\ Len(txSent) <= TxPlannedCount
        /\ \A i, j \in 1..Len(txSent) : i # j => txSent[i] # txSent[j]
        /\ \A i \in 1..Len(txSent) : txSent[i] \in txIn.genesis
        /\ IsPrefix(txSent, FilterSeq(txIn.wallet, txIn.genesis))

\* C22 witness: two submissions, from a wallet whose first configured
\* account has no genesis output and whose order is not the key order.
C22_Witness ==
    /\ Len(txSent) = 2
    /\ txSent[1] > txSent[2]
    /\ txIn.wallet[1] \notin txIn.genesis

\* C23: once a transaction has failed, start has returned the error and
\* nothing more is submitted.
C23_FatalTxError ==
    [][(txResult' = "txErr" \/ txResult = "txErr")
         => /\ txPc' = "done"
            /\ txSent' = txSent]_vars

\* C23 witness: a transaction failed after one was submitted and while
\* another was still queued.
C23_Witness ==
    /\ txResult = "txErr"
    /\ Len(txSent) = 1
    /\ txPlan # <<>>

\* C24: evaluate passes if and only if observed >= ceil(planned * 0.5),
\* with planned as fixed at start_capture.
C24_InclusionRatio ==
    (txVerdict # "none") =>
        /\ txExp.captured
        /\ (txVerdict = "pass") <=> (2 * txExp.observed >= txExp.expected)
        /\ txExp.expected =
             SubmissionPlan(txIn, LimitedUserCount(txIn.user_limit, Len(txIn.wallet)))

\* C24 witness: three planned, two observed: a pass at exactly the rounded-up
\* half.
C24_Witness ==
    /\ txVerdict = "pass"
    /\ txExp.expected = 3
    /\ txExp.observed = 2

\* ===================================================================
\* Properties of the DA inclusion expectation
\* ===================================================================

\* C25: evaluate passes if and only if the planned channels with an
\* observed inscription are at least 80% of the planned channels, rounded
\* up, and the blobs observed on planned channels are at least 80% of the
\* planned blobs, rounded up.
C25_DaInclusion ==
    (dxPc = "evaluated") =>
        ((dxVerdict = "pass") <=>
            /\ 5 * Cardinality(dxCap.inscriptions \cap dxCap.planned)
                  >= 4 * Cardinality(dxCap.planned)
            /\ 5 * SumSeq(dxCap.blobs)
                  >= 4 * (dxIn.blob_rate * dxIn.blocks))

\* C25 witness: a pass with one of five planned channels never inscribed
\* and four of five planned blobs observed.
C25_Witness ==
    /\ dxVerdict = "pass"
    /\ Cardinality(dxCap.planned) = 5
    /\ Cardinality(dxCap.inscriptions) = 4
    /\ dxCap.expected_total_blobs = 5
    /\ SumSeq(dxCap.blobs) = 4

\* ===================================================================
\* Properties of publish_blob
\* ===================================================================

\* C26: publish_blob makes at most 5 rounds, each over all executors in
\* some order, sleeping 2 s between consecutive rounds; it returns the blob
\* id of the first publish that succeeds, the last error once the fifth
\* round has failed, and an error without any attempt when there are no
\* executors.
C26_PublishBlob ==
    /\ pbAttempt <= 5
    /\ pbSlept = 2 * SaturatingSub(pbAttempt, 1)
    /\ (pbPc = "done" /\ pbExecutors = 0) =>
          /\ pbOut.result = "err"
          /\ pbOut.err = NoExecutorsErr
          /\ pbOrder = <<>> /\ pbLog = <<>> /\ pbSlept = 0
    /\ (pbPc = "done" /\ pbOut.result = "ok") =>
          /\ pbOut.blob = pbOrder[pbIdx]
          /\ pbLog = SubSeq(pbOrder, 1, pbIdx)
    /\ (pbPc = "done" /\ pbOut.result = "err" /\ pbExecutors > 0) =>
          /\ pbAttempt = 5
          /\ pbLog = pbOrder
          /\ pbOut.err = pbLastErr
          /\ pbLastErr.attempt = 5
          /\ pbLastErr.executor = pbOrder[Len(pbOrder)]

\* C26 witness: the blob is accepted in the fifth round by the second
\* candidate of an order that is not the configured one, after 8 s of
\* pauses.
C26_Witness ==
    /\ pbPc = "done"
    /\ pbOut.result = "ok"
    /\ pbAttempt = 5
    /\ pbIdx = 2
    /\ pbOrder[1] > pbOrder[2]
    /\ pbSlept = 8

\* ===================================================================
\* Properties of attaching a chaos restart workload
\* ===================================================================

\* The invariants of a chaos restart configuration.
ChaosInvariants(w) ==
    /\ w.min_delay <= w.max_delay
    /\ w.target_cooldown >= w.min_delay
    /\ w.include_validators \/ w.include_executors

\* C27: every chaos restart workload attached to a scenario has
\* min_delay <= max_delay, target_cooldown >= min_delay and at least one
\* node group included.
C27_AttachedIsValid ==
    \A i \in 1..Len(cbWorkloads) : ChaosInvariants(cbWorkloads[i])

\* -------------------------------------------------------------------
\* The DA workload's plan
\* -------------------------------------------------------------------

CeilDiv(a, b) == (a + b - 1) \div b

PublishedTotal == SumSeq(dwPublished)

\* C28: the workload plans max(1, ceil(channel_rate * (1 + headroom/100)))
\* channels and ceil(expected_blobs / channel_count) blobs per channel, so
\* a workload that completed all its channel flows has published at least
\* expected_blobs blobs.
C28_CompletedPublishesExpected ==
    /\ dwPc \in {"running", "completed", "failed"} =>
        /\ dwPlan.channels =
             LET c == CeilDiv(dwIn.channel_rate * (100 + dwIn.headroom), 100)
             IN IF c > 1 THEN c ELSE 1
        /\ dwPlan.per = CeilDiv(dwPlan.expected, dwPlan.channels)
    /\ dwPc = "completed" => PublishedTotal >= dwPlan.expected

\* The same plan and outcome whenever the target's addition stays within
\* u64: the divergence is confined to the overflowing plans.
C28_HoldsWithoutOverflow ==
    (/\ dwPc \in {"running", "completed", "failed"}
     /\ ~TargetOverflows(dwPlan.expected, dwPlan.channels)) =>
        /\ dwPlan.per = CeilDiv(dwPlan.expected, dwPlan.channels)
        /\ dwPc = "completed" => PublishedTotal >= dwPlan.expected

C28_OverflowCompleted ==
    /\ dwPc = "completed"
    /\ TargetOverflows(dwPlan.expected, dwPlan.channels)

\* -------------------------------------------------------------------
\* The topology builder
\* -------------------------------------------------------------------

TopologyProduced == tbPc \in {"built", "supported", "rejected"}

\* C29: every topology the builder produces contains at least one
\* validator, for every combination of validator and executor counts the
\* builder accepts.
C29_AtLeastOneValidator ==
    TopologyProduced => Len(tbTopo.validators) >= 1

\* What the builder does guarantee: at least one node, the roles split as
\* configured, and indices 0..|V| and 0..|E| within each role.
C29_AtLeastOneNode ==
    TopologyProduced =>
        /\ Len(tbTopo.validators) + Len(tbTopo.executors) >= 1
        /\ Len(tbTopo.validators) = tbCfg.n_validators
        /\ Len(tbTopo.executors) = tbCfg.n_executors
        /\ \A k \in 1..Len(tbTopo.validators) :
               tbTopo.validators[k].index = k - 1
        /\ \A k \in 1..Len(tbTopo.executors) :
               tbTopo.executors[k].index = k - 1

C29_BuiltWithoutValidator ==
    /\ TopologyProduced
    /\ Len(tbTopo.validators) = 0
    /\ Len(tbTopo.executors) >= 1

\* -------------------------------------------------------------------
\* WalletConfig::uniform
\* -------------------------------------------------------------------

RECURSIVE SumValues(_)
SumValues(accounts) ==
    IF accounts = <<>> THEN 0
    ELSE Head(accounts).value + SumValues(Tail(accounts))

SharedIndices ==
    {k \in DOMAIN wlWallet : k \in DOMAIN wlPrev}

\* C30: for every total T and user count n it accepts, uniform(T, n)
\* produces exactly n accounts whose values sum to T; the key of an
\* account is the same in every wallet for the same index, whatever the
\* total and the account's value, and is derived from the "wl" seed.
C30_UniformWallet ==
    wlPc = "built" =>
        /\ Len(wlWallet) = wlArgs.users
        /\ SumValues(wlWallet) = wlArgs.total_funds
        /\ \A k \in DOMAIN wlWallet :
               /\ wlWallet[k].value > 0
               /\ wlWallet[k].secret_key % 65536 = ByteW + 256 * ByteL
               /\ wlWallet[k].secret_key \div 65536 = k - 1
        /\ \A k \in SharedIndices :
               PublicKeyOf(wlWallet[k]) = PublicKeyOf(wlPrev[k])

\* Two wallets of different totals with an uneven split, sharing an
\* index at which the values differ.
C30_Witness ==
    /\ wlPc = "built"
    /\ wlArgs.total_funds % wlArgs.users # 0
    /\ SumValues(wlPrev) # SumValues(wlWallet)
    /\ \E k \in SharedIndices : wlWallet[k].value # wlPrev[k].value

\* ===================================================================
\* Further properties of the block feed: the seen set and the walk
\* ===================================================================

\* C31: over the lifetime of a block feed each header id is broadcast at
\* most once: no header occurs twice among the headers the feed ingested,
\* whatever forks the polled tips were on.
C31_EmittedOnce ==
    \A i, j \in 1..Len(ingested) : ingested[i] = ingested[j] => i = j

\* C31 witness: the tip moved to another fork; the later batch was emitted
\* while a block of the abandoned fork, emitted earlier, stays emitted once.
C31_Witness ==
    /\ CaughtUp
    /\ batch # <<>>
    /\ \E b \in Range(ingested) \ Range(batch) : b \notin AncestorsOrSelf(lastTip)

\* C32: a walk fetches at most `height` blocks, height being the value read
\* together with the tip: a fetch is made only with remaining_height >= 1,
\* after height - remaining_height fetches; and a walk that ended stopped at
\* a seen cursor, a cursor reached with remaining_height 0, or a block whose
\* parent is seen or is the block itself.
C32_WalkBounded ==
    /\ scPc = "fetch" =>
          /\ remaining >= 1
          /\ Len(stack) + remaining = Height(lastTip)
    /\ scPc = "emit" =>
          /\ Len(stack) + Len(batch) <= Height(lastTip)
          /\ stack # <<>> =>
                LET last == stack[Len(stack)]
                IN ParentOf(last) \in seen \/ ParentOf(last) = last

\* C32 witness: a walk that ended because remaining_height reached zero,
\* having fetched exactly `height` blocks, two or more.
C32_Witness ==
    /\ scPc = "emit"
    /\ batch = <<>>
    /\ Len(stack) = Height(lastTip)
    /\ Len(stack) >= 2

\* C34: a catch_up that fails has no effect: every step of a walk that
\* goes on to a fetch, and the step in which catch_up returns an error,
\* leaves the seen set, the channel, the ingested headers and the stats
\* as they were, and a walk that is still fetching has ingested nothing.
C34_FailedCatchUpNoEffect ==
    /\ [][(/\ scPc \in {"poll", "fetch"}
           /\ \/ scPc' = "fetch"
              \/ /\ scPc' \in {"sleep", "spawnFailed"}
                 /\ lastResult' # "ok")
            => /\ seen' = seen
               /\ sent' = sent
               /\ ingested' = ingested
               /\ totalTx' = totalTx]_vars
    /\ [](scPc = "fetch" => batch = <<>>)

\* C34 witness: a catch_up of the running scanner failed on a block fetch
\* after earlier batches were emitted; the polled tip is still unseen.
C34_Witness ==
    /\ spawned
    /\ scPc = "sleep"
    /\ lastResult \in FetchErrors
    /\ ingested # <<>>
    /\ lastTip \notin seen
    /\ Height(lastTip) >= 2

\* C40: the seen set is ancestor-closed, after every catch_up and at every
\* step of one: with a block, all its ancestors down to the height-0 block
\* are in seen.
C40_SeenAncestorClosed ==
    \A b \in seen : Ancestors(b) \subseteq seen

\* C40 witness: after a successful catch_up that followed a fork switch,
\* seen holds blocks of both forks.
C40_Witness ==
    /\ scPc = "sleep"
    /\ lastResult = "ok"
    /\ Cardinality(seen) >= 3
    /\ \E b \in seen : b \notin AncestorsOrSelf(lastTip)

\* -------------------------------------------------------------------
\* The capture task of the transaction-inclusion expectation
\* -------------------------------------------------------------------

\* C33 as stated: observed is incremented once for every ledger output
\* whose key is tracked, in blocks with a non-genesis parent.
C33_Original ==
    tcObserved = tcOutputs

\* C33 amended: for each received block with a non-genesis parent, observed
\* is incremented once for every transaction that has at least one output
\* with a tracked key (further tracked outputs of the same transaction add
\* nothing), and blocks whose parent is the genesis id add nothing.
C33_Amended ==
    tcObserved = tcTxs

\* C33 witness: the task counted a transaction with two tracked outputs
\* once.
C33_Witness ==
    /\ tcPc \in {"capturing", "exited"}
    /\ tcObserved >= 1
    /\ tcOutputs > tcTxs

\* -------------------------------------------------------------------
\* The DA channel flows: subscription before submission
\* -------------------------------------------------------------------

\* Operations of channel c accepted by the cluster or already in a block.
ChannelOps(c) ==
    {op \in daPending \cup UNION Range(daSent) : op.ch = c}

FlowRunning(c) == daPc[c] \in {"submit", "waitIns", "publish", "waitBlob"}

\* C35: for each DA channel the flow's receiver exists before the
\* inscription is submitted and for as long as the flow runs, and every
\* block holding an operation of the channel was broadcast after the
\* receiver was created.
C35_SubscribedBeforeSubmit ==
    \A c \in DaChannels :
        /\ FlowRunning(c) => daRx[c].active
        /\ ChannelOps(c) # {} => daRx[c].active
        /\ \A k \in 1..Len(daSent) :
               (\E op \in daSent[k] : op.ch = c) => k > daRx[c].since

\* C35 witness: a flow that subscribed after blocks had been broadcast has
\* its inscription in a later block.
C35_Witness ==
    \E c \in DaChannels :
        /\ daRx[c].active
        /\ daRx[c].since >= 1
        /\ \E k \in 1..Len(daSent) : InscribeOp(c) \in daSent[k]

\* -------------------------------------------------------------------
\* The expectation's plan against the workload's plan
\* -------------------------------------------------------------------

\* start_capture: the public keys of the first `planned` configured wallet
\* accounts (wallet_accounts.into_iter().take(planned)).
WalletPks(in, planned) == Range(Take(in.wallet, planned))

\* Submission::new has run and nothing is submitted yet: txPlan is the whole
\* queue of accounts the workload submits from.
SubmissionPlanned == txPc = "running" /\ txSent = <<>>

C36_AgreesWhenAllFunded ==
    (SubmissionPlanned /\ Range(txIn.wallet) \subseteq txIn.genesis) =>
        /\ txExp.expected = Len(txPlan)
        /\ WalletPks(txIn, txExp.expected) = Range(txPlan)

\* A tracked key the workload never submits from, with equal counts.
C36_TracksUnfundedKey ==
    ~(/\ SubmissionPlanned
      /\ txExp.expected = Len(txPlan)
      /\ WalletPks(txIn, txExp.expected) \cap Range(txPlan) = {})
\* -------------------------------------------------------------------
\* Properties of the cfgsync repository
\* -------------------------------------------------------------------

\* Hosts that have registered so far.
Registered == {cfReq[i].host : i \in 1..Len(cfReq)}

\* C37: the repository is a barrier. A request is answered with a
\* configuration only after at least n_hosts distinct hosts have registered,
\* and every configuration sent was computed from one host set, the keys of
\* waiting_hosts at the release, which holds the receiving host.
C37_Barrier ==
    \A i \in 1..Len(cfReq) :
        cfReq[i].st = "config" =>
            /\ Cardinality(Registered) >= NHosts
            /\ cfReleased # NoRelease
            /\ Cardinality(cfReleased) >= NHosts
            /\ cfReq[i].cfg.hosts = cfReleased
            /\ cfReq[i].cfg.host = cfReq[i].host
            /\ cfReq[i].host \in cfReleased

C37_Witness ==
    /\ cfPc = "done"
    /\ Cardinality({i \in 1..Len(cfReq) : cfReq[i].st = "config"}) >= NHosts
    /\ \E i \in 1..Len(cfReq) : cfReq[i].st = "recvError"

\* C38: every request registered with the repository is eventually answered
\* with a configuration or a timeout, whenever it registers.
C38_EveryRequestAnswered ==
    \A i \in 1..MaxRequests :
        (Len(cfReq) >= i) ~> (Len(cfReq) >= i /\ cfReq[i].st \in {"config", "timeout"})

\* A request that is waiting while the run task has not finished is answered,
\* replaced by a later request of its host, or left behind by a panic of the
\* run task.
C38_AnsweredWhileRunning ==
    \A i \in 1..MaxRequests :
        (Len(cfReq) >= i /\ cfReq[i].st = "waiting" /\ cfPc \in {"waiting", "releasing"})
            ~> \/ cfPc = "panicked"
               \/ Len(cfReq) >= i /\ cfReq[i].st \in {"config", "timeout", "recvError"}

\* No request is left waiting once the run task has returned.
C38_NoneWaitingAfterRun ==
    cfPc = "done" => \A i \in 1..Len(cfReq) : cfReq[i].st # "waiting"
\* -------------------------------------------------------------------
\* Properties of repeated start_capture calls
\* -------------------------------------------------------------------

\* A start_capture call on expectation x made while it is capturing.
RepeatedCall(x) ==
    /\ rcCalls'[x] = rcCalls[x] + 1
    /\ IF x = "tx" THEN rcTx.captured ELSE rcDa.captured

\* C39: start_capture is idempotent for both expectations. A call made after
\* capture has started returns Ok, creates no subscription and no task and
\* leaves the capture state (planned values and counters) as it was; each
\* expectation has at most one task and one receiver, and its counters
\* equal what was broadcast since its capture started.
C39_Idempotent ==
    /\ [][\A x \in Expectations :
            RepeatedCall(x) =>
                /\ rcLast'[x] = "ok"
                /\ rcSubs' = rcSubs /\ rcTasks' = rcTasks
                /\ rcTx' = rcTx /\ rcDa' = rcDa]_vars
    /\ [](/\ \A x \in Expectations : rcTasks[x] <= 1
          /\ rcSubs = rcTasks["tx"] + rcTasks["da"]
          /\ rcTx.observed = rcSeen["tx"]
          /\ SumSeq(rcDa.blobs) = rcSeen["da"])

C39_Witness ==
    /\ rcCalls["tx"] = MaxCaptureCalls /\ rcCalls["da"] = MaxCaptureCalls
    /\ rcLast["tx"] = "ok" /\ rcLast["da"] = "ok"
    /\ rcTx.captured /\ rcDa.captured
    /\ rcTx.observed >= 1 /\ SumSeq(rcDa.blobs) >= 1
    /\ rcSubs = 2

====
